---- MODULE Spec2Model ----
(***************************************************************************)
(* EntS compiler: the tree-walking x86-64 code generator                   *)
(* (src/src/codegenerator.cpp) and the parser's top-level registries       *)
(* (src/src/parser.cpp).                                                   *)
(*                                                                         *)
(* The code generator is modelled as the C++ call stack it runs on: every  *)
(* frame of `frames` is the activation of one visit function, with its     *)
(* locals and the place it resumes at.  Emitted assembly lines are records *)
(* that keep the pieces the C++ code concatenates into the text.           *)
(***************************************************************************)
EXTENDS Integers, Sequences, FiniteSets, TLC

VARIABLES
    program,              \* ProgramNode::functions, the tree handed to generateCode
    typedefs,             \* CodeGenerator::typedefs
    structDefinitions,    \* CodeGenerator::structDefinitions
    generatedCode,        \* CodeGenerator::generatedCode
    localVarStack,        \* CodeGenerator::localVarStack
    localVarOffset,       \* CodeGenerator::localVarOffset
    totalLocalVarOffset,  \* CodeGenerator::totalLocalVarOffset
    labelCounter,         \* CodeGenerator::labelCounter
    currentArgOffset,     \* CodeGenerator::currentArgOffset
    currentFunctionName,  \* CodeGenerator::currentFunctionName
    loopContextStack,     \* CodeGenerator::loopContextStack
    frames,               \* the C++ call stack of the generator, innermost first
    blockTrace,           \* for every visitBlockNode call that returned: the lines it emitted
    status,               \* "running", "done" (generateCode returned), "fatal" (exit(1))
    tokens,               \* Parser::tokens
    current,              \* Parser::current
    existing_types,       \* Parser::existing_types
    existing_functions,   \* Parser::existing_functions
    existing_variables,   \* Parser::existing_variables
    statements,           \* the local `statements` of Parser::parse
    pstatus,              \* "running", "done" (parse returned), or the message of the exception thrown
    files,                \* the file system: path -> lines of the file
    cwd,                  \* the current working directory of the process
    includePaths,         \* Preprocessor::includePaths
    macros,               \* Preprocessor::macros
    stream,               \* the lines of `stream` that preprocess has not read yet
    output,               \* the lines written to `output` of preprocess
    ppstatus,             \* "constructed", "running", "returned" (preprocess returned output), "nullopt" or "fatal"
    filename,             \* the argument of preprocess
    source,               \* Lexer::source
    start,                \* Lexer::start
    lstatus,              \* "running" inside the loop of tokenize, "returned" after it
    expr,                 \* the node whose emitted lines the processor runs
    cpu,                  \* the processor that runs generatedCode: pc, registers, stack, flags
    asmCall               \* the call of Parser::parseAsm in progress: its place, depth and asm_source

genVars == <<program, typedefs, structDefinitions, generatedCode, localVarStack,
             localVarOffset, totalLocalVarOffset, labelCounter, currentArgOffset,
             currentFunctionName, loopContextStack, frames, blockTrace, status>>

parseVars == <<tokens, current, existing_types, existing_functions,
               existing_variables, statements, pstatus>>

preVars == <<files, cwd, includePaths, macros, stream, output, ppstatus, filename>>

lexVars == <<source, start, lstatus>>

cpuVars == <<expr, cpu>>

vars == <<genVars, parseVars, preVars, lexVars, cpuVars, asmCall>>

(***************************************************************************)
(* Bounds of the explored inputs.                                          *)
(***************************************************************************)
\* largest number of arguments of a call and of parameters of a function
MaxArgs == 7
\* paths through the emitted code are followed while |rsp - entry rsp| stays below this
RspWindow == 96
\* most top-level items in a token stream handed to the parser
MaxItems == 3

(***************************************************************************)
(* Small helpers.                                                          *)
(***************************************************************************)
Abs(n) == IF n < 0 THEN -n ELSE n

Max(a, b) == IF a > b THEN a ELSE b

Last(s) == s[Len(s)]

EmptyMap == [x \in {} |-> 0]

RECURSIVE SumSeq(_)
SumSeq(s) == IF s = <<>> THEN 0 ELSE Head(s) + SumSeq(Tail(s))

(***************************************************************************)
(* The tree (src/unnamed/part_005, ast.hpp).  A null ASTNodePtr is NullNode.*)
(***************************************************************************)
NullNode == [t |-> "null"]

\* the processor before any line runs: nothing the generated code relies on is set
PoweredOff == [state |-> "off", pc |-> 0, rax |-> 0, rbx |-> 0, rdx |-> 0,
               args |-> [r \in {"rdi", "rsi", "rcx", "r8", "r9"} |-> 0],
               stack |-> <<>>, flags |-> 0]

\* no call of parseAsm is in progress
NotCalled == [at |-> "none", depth |-> 0, asm_source |-> <<>>]

LiteralNode(value) == [t |-> "Literal", value |-> value]

IdentifierNode(name) == [t |-> "Identifier", name |-> name]

ExpressionNode(left, op, right) ==
    [t |-> "Expression", left |-> left, op |-> op, right |-> right]

ParameterNode(type, name) == [t |-> "Parameter", type |-> type, name |-> name]

VarDeclNode(type, name) == [t |-> "VarDecl", type |-> type, name |-> name]

VarDeclAssignNode(type, name, expression) ==
    [t |-> "VarDeclAssign", type |-> type, name |-> name, expression |-> expression]

AssignNode(name, expression) ==
    [t |-> "Assign", name |-> name, expression |-> expression]

ReturnNode(expression) == [t |-> "Return", expression |-> expression]

BlockNode(stmts) == [t |-> "Block", statements |-> stmts]

IfNode(condition, body, else_) ==
    [t |-> "If", condition |-> condition, body |-> body, else_ |-> else_]

WhileNode(condition, body) ==
    [t |-> "While", condition |-> condition, body |-> body]

CaseNode(case_, body) == [t |-> "Case", case_ |-> case_, body |-> body]

DefaultNode(body) == [t |-> "Default", body |-> body]

SwitchNode(condition, cases) ==
    [t |-> "Switch", condition |-> condition, cases |-> cases]

BreakNode == [t |-> "Break"]

ContinueNode == [t |-> "Continue"]

FunctionCallNode(name, arguments) ==
    [t |-> "FunctionCall", name |-> name, arguments |-> arguments]

FunctionNode(name, returnType, params, body) ==
    [t |-> "Function", name |-> name, returnType |-> returnType,
     params |-> params, body |-> body]

(***************************************************************************)
(* Emitted lines.  A line is the instruction text split where the C++ code *)
(* concatenates it: `op` is the fixed text, `a` and `b` the inserted       *)
(* strings and `n` the inserted number.                                    *)
(***************************************************************************)
Line(op, a, b, n) == [op |-> op, a |-> a, b |-> b, n |-> n]

\* std::to_string(int): a minus sign for negative numbers, no sign otherwise
StdToString(n) == [sign |-> IF n < 0 THEN "-" ELSE "", digits |-> Abs(n)]

\* "mov [rbp" + sign + digits + "], " + src
StoreLine(sign, digits, src) == Line("mov [rbp..], src", sign, src, digits)

\* NAME + ":"  for a label made of a prefix, a name and a number
LabelLine(l) == Line("label", l.prefix, l.name, l.n)

JmpLine(l) == Line("jmp", l.prefix, l.name, l.n)

JeLine(l) == Line("je", l.prefix, l.name, l.n)

\* "L" + std::to_string(labelCounter)
UniqueLabel(n) == [prefix |-> "L", name |-> "", n |-> n]

\* ".L_return_" + currentFunctionName
ReturnLabel(fn) == [prefix |-> ".L_return_", name |-> fn, n |-> 0]

\* currentFunctionName, the entry label of a function
EntryLabel(fn) == [prefix |-> "", name |-> fn, n |-> 0]

PushRax == Line("push", "rax", "", 0)

PopRbx == Line("pop", "rbx", "", 0)

SubRsp(n) == Line("sub rsp,", "", "", n)

AddRsp(n) == Line("add rsp,", "", "", n)

Plain(text) == Line(text, "", "", 0)

argumentRegisters == <<"rdi", "rsi", "rdx", "rcx", "r8", "r9">>

(***************************************************************************)
(* Type sizes.  -1 stands for printFatal("Unknown type size").             *)
(***************************************************************************)
ResolveTypeName(tds, type) == IF type \in DOMAIN tds THEN tds[type] ELSE type

RECURSIVE ResolveTypeSize(_, _, _)
RECURSIVE SumMemberSizes(_, _, _)
ResolveTypeSize(tds, sds, type) ==
    LET resolvedType == ResolveTypeName(tds, type) IN
    IF resolvedType \in {"int8", "uint8", "char"} THEN 1
    ELSE IF resolvedType \in {"int16", "uint16"} THEN 2
    ELSE IF resolvedType \in {"int32", "uint32", "float"} THEN 4
    ELSE IF resolvedType \in {"int64", "uint64", "double"} THEN 8
    ELSE IF resolvedType \in DOMAIN sds THEN SumMemberSizes(tds, sds, sds[resolvedType])
    ELSE -1

SumMemberSizes(tds, sds, members) ==
    IF members = <<>> THEN 0
    ELSE LET s == ResolveTypeSize(tds, sds, Head(members))
             r == SumMemberSizes(tds, sds, Tail(members))
         IN IF s < 0 \/ r < 0 THEN -1 ELSE s + r

IsDecl(stmt) == stmt.t \in {"VarDecl", "VarDeclAssign"}

\* -1 when a declared type has no size (the fatal exit of resolveTypeSize)
RECURSIVE CalculateLocalVariableSize(_, _, _)
CalculateLocalVariableSize(tds, sds, stmts) ==
    IF stmts = <<>> THEN 0
    ELSE LET rest == CalculateLocalVariableSize(tds, sds, Tail(stmts))
             s == IF IsDecl(Head(stmts))
                  THEN ResolveTypeSize(tds, sds, Head(stmts).type) ELSE 0
         IN IF s < 0 \/ rest < 0 THEN -1 ELSE s + rest

\* block size with the rounding left out
RoundUpMut(size) == size

\* visitBlockNode, lines 305-307
RoundUp(size) == IF size % 16 # 0 THEN size + (16 - (size % 16)) ELSE size

(***************************************************************************)
(* Expressions.  visitExpressionNode only emits; it is given whatever node *)
(* the parent holds and dynamic_casts it to ExpressionNode, so a node of   *)
(* another class arrives as nullptr and nothing is emitted for it.         *)
(***************************************************************************)
VisitLiteralNode(node) == <<Line("mov rax,", "", node.value, 0)>>

OpLines(op, hasLeft, hasRight) ==
    IF op = "+" THEN <<Plain("add rax, rbx")>>
    ELSE IF op = "-" THEN
        IF ~hasLeft /\ hasRight THEN <<Plain("neg rax")>> ELSE <<Plain("sub rax, rbx")>>
    ELSE IF op = "*" THEN <<Plain("imul rax, rbx")>>
    ELSE IF op = "/" THEN <<Plain("xor rdx, rdx"), Plain("idiv rbx")>>
    ELSE IF op = "==" THEN <<Plain("cmp rax, rbx"), Plain("sete al"), Plain("movzx rax, al")>>
    ELSE IF op = "!=" THEN <<Plain("cmp rax, rbx"), Plain("setne al"), Plain("movzx rax, al")>>
    ELSE IF op = "<" THEN <<Plain("cmp rax, rbx"), Plain("setl al"), Plain("movzx rax, al")>>
    ELSE IF op = "<=" THEN <<Plain("cmp rax, rbx"), Plain("setle al"), Plain("movzx rax, al")>>
    ELSE IF op = ">" THEN <<Plain("cmp rax, rbx"), Plain("setg al"), Plain("movzx rax, al")>>
    ELSE IF op = ">=" THEN <<Plain("cmp rax, rbx"), Plain("setge al"), Plain("movzx rax, al")>>
    ELSE IF op \in {"&", "&&"} THEN <<Plain("and rax, rbx")>>
    ELSE IF op \in {"|", "||"} THEN <<Plain("or rax, rbx")>>
    ELSE IF op = "!" THEN <<Plain("cmp rax, 0"), Plain("sete al"), Plain("movzx rax, al")>>
    ELSE <<>>

RECURSIVE VisitExpressionNode(_)
VisitExpressionNode(node) ==
    IF node.t # "Expression" THEN <<>>
    ELSE
        LET hasLeft == node.left.t # "null"
            hasRight == node.right.t # "null"
            leftLines ==
                IF hasLeft /\ node.left.t = "Literal"
                THEN VisitLiteralNode(node.left) \o <<PushRax>>
                ELSE IF hasLeft THEN VisitExpressionNode(node.left) \o <<PushRax>>
                ELSE <<>>
            rightLines ==
                IF hasRight /\ node.right.t = "Literal" THEN VisitLiteralNode(node.right)
                ELSE IF hasRight THEN VisitExpressionNode(node.right)
                ELSE <<>>
            popLines == IF hasLeft THEN <<PopRbx>> ELSE <<>>
        IN leftLines \o rightLines \o popLines \o OpLines(node.op, hasLeft, hasRight)

(***************************************************************************)
(* localVarStack: a sequence of maps name -> (offset, type); back() is the *)
(* last element.                                                           *)
(***************************************************************************)
PopBack(s) == SubSeq(s, 1, Len(s) - 1)

SetInBack(stack, name, offset, type) ==
    [stack EXCEPT ![Len(stack)] =
        (name :> [offset |-> offset, type |-> type]) @@ stack[Len(stack)]]

\* getLocalVariableOffset: innermost scope first; found = FALSE is printError + exit
RECURSIVE GetLocalVariableOffset(_, _)
GetLocalVariableOffset(stack, name) ==
    IF stack = <<>> THEN [found |-> FALSE, offset |-> 0]
    ELSE IF name \in DOMAIN Last(stack)
         THEN [found |-> TRUE, offset |-> Last(stack)[name].offset]
         ELSE GetLocalVariableOffset(PopBack(stack), name)

(***************************************************************************)
(* Lines emitted by the straight-line parts of the visit functions.        *)
(***************************************************************************)
\* the prologue with the frame pointer set before it is saved
EmitFunctionPrologueMut(fn) ==
    <<Plain("section .text"), Line(".global", "", fn, 0), LabelLine(EntryLabel(fn)),
      Plain("mov rbp, rsp"), Line("push", "rbp", "", 0)>>

\* emitFunctionPrologue
EmitFunctionPrologue(fn) ==
    <<Plain("section .text"), Line(".global", "", fn, 0), LabelLine(EntryLabel(fn)),
      Line("push", "rbp", "", 0), Plain("mov rbp, rsp")>>

EmitFunctionEpilogue(fn) ==
    <<LabelLine(ReturnLabel(fn)), Plain("leave"), Plain("ret")>>

\* enterFunction, lines 54-66: the stores of the register-passed parameters
RECURSIVE ParamStores(_, _)
ParamStores(params, i) ==
    IF i >= Len(params) THEN <<>>
    ELSE (IF i < Len(argumentRegisters)
          THEN <<StoreLine("-", StdToString(8 * (i + 1)).digits, argumentRegisters[i + 1])>>
          ELSE <<>>) \o ParamStores(params, i + 1)

\* enterFunction, lines 54-66: the frame map of the parameters (i counts from 0)
RECURSIVE ParamMap(_, _, _)
ParamMap(params, i, argOffset) ==
    IF i >= Len(params) THEN EmptyMap
    ELSE LET p == params[i + 1] IN
         IF i < Len(argumentRegisters)
         THEN ParamMap(params, i + 1, argOffset)
              @@ (p.name :> [offset |-> -8 * (i + 1), type |-> p.type])
         ELSE ParamMap(params, i + 1, argOffset + 8)
              @@ (p.name :> [offset |-> argOffset, type |-> p.type])

\* visitReturnNode
ReturnLines(node, total, fn) ==
    (IF node.expression.t # "null" THEN VisitExpressionNode(node.expression) ELSE <<>>)
    \o (IF total > 0 THEN <<AddRsp(total)>> ELSE <<>>)
    \o <<JmpLine(ReturnLabel(fn))>>

\* visitFunctionCallNode, the loop of lines 359-366 from argument index i down to 0
RECURSIVE ArgumentLines(_, _)
ArgumentLines(arguments, i) ==
    IF i < 0 THEN <<>>
    ELSE VisitExpressionNode(arguments[i + 1])
         \o (IF i < Len(argumentRegisters)
             THEN <<Line("mov reg, rax", argumentRegisters[i + 1], "", 0)>>
             ELSE <<PushRax>>)
         \o ArgumentLines(arguments, i - 1)

\* visitFunctionCallNode
FunctionCallLines(node) ==
    ArgumentLines(node.arguments, Len(node.arguments) - 1)
    \o <<Line("call", "", node.name, 0),
         AddRsp(8 * Max(0, Len(node.arguments) - Len(argumentRegisters)))>>

\* visitBlockNode, lines 310-313
BlockEntryLines(localVarSize) ==
    IF localVarSize > 0 THEN <<SubRsp(localVarSize)>> ELSE <<>>

\* block exit with the release of the locals left out
BlockExitLinesMut(localVarSize) == <<>>

\* visitBlockNode, lines 351-354
BlockExitLines(localVarSize) ==
    IF localVarSize > 0 THEN <<AddRsp(localVarSize)>> ELSE <<>>

(***************************************************************************)
(* The generator's call stack.                                             *)
(***************************************************************************)
top == Head(frames)

Running == status = "running" /\ frames # <<>>

BlockFrame(node) == [k |-> "block", node |-> node]

InLoop == Running /\ top.k = "stmts" /\ top.i <= Len(top.node.statements)

stmt == top.node.statements[top.i]

NextStmt == [top EXCEPT !.i = top.i + 1]

\* printFatal / printError: the message is printed and the process exits
Exit ==
    /\ status' = "fatal"
    /\ frames' = <<>>
    /\ UNCHANGED <<program, typedefs, structDefinitions, generatedCode, localVarStack,
                   localVarOffset, totalLocalVarOffset, labelCounter, currentArgOffset,
                   currentFunctionName, loopContextStack, blockTrace>>

\* what one returned visitBlockNode call did
BlockRecord(entry, code, depthIn, depthOut) ==
    [from |-> entry + 1, to |-> Len(code), depthIn |-> depthIn, depthOut |-> depthOut]

(***************************************************************************)
(* visitProgramNode / visitFunctionNode / enterFunction / exitFunction     *)
(***************************************************************************)
VisitProgramNodeDone ==
    /\ Running /\ top.k = "program" /\ top.i > Len(program)
    /\ UNCHANGED <<parseVars, preVars, lexVars, cpuVars, asmCall>>
    /\ status' = "done"
    /\ frames' = <<>>
    /\ UNCHANGED <<program, typedefs, structDefinitions, generatedCode, localVarStack,
                   localVarOffset, totalLocalVarOffset, labelCounter, currentArgOffset,
                   currentFunctionName, loopContextStack, blockTrace>>

VisitFunctionNode ==
    /\ Running /\ top.k = "program" /\ top.i <= Len(program)
    /\ program[top.i].t = "Function"
    /\ UNCHANGED <<parseVars, preVars, lexVars, cpuVars, asmCall>>
    /\ LET function == program[top.i] IN
        /\ currentFunctionName' = function.name
        /\ localVarOffset' = 0
        /\ totalLocalVarOffset' = 0
        /\ currentArgOffset' =
              16 + 8 * Max(0, Len(function.params) - Len(argumentRegisters))
        /\ localVarStack' = Append(localVarStack, ParamMap(function.params, 0, 16))
        /\ generatedCode' = generatedCode \o EmitFunctionPrologue(function.name)
                                \o ParamStores(function.params, 0)
        /\ frames' = <<BlockFrame(function.body), [k |-> "function"],
                       [top EXCEPT !.i = top.i + 1]>> \o Tail(frames)
    /\ UNCHANGED <<program, typedefs, structDefinitions, labelCounter,
                   loopContextStack, blockTrace, status>>

ExitFunction ==
    /\ Running /\ top.k = "function"
    /\ UNCHANGED <<parseVars, preVars, lexVars, cpuVars, asmCall>>
    /\ generatedCode' = generatedCode \o EmitFunctionEpilogue(currentFunctionName)
    /\ localVarStack' = PopBack(localVarStack)
    /\ currentFunctionName' = ""
    /\ frames' = Tail(frames)
    /\ UNCHANGED <<program, typedefs, structDefinitions, localVarOffset,
                   totalLocalVarOffset, labelCounter, currentArgOffset,
                   loopContextStack, blockTrace, status>>

\* visitProgramNode, line 114, for an item that is no FunctionNode: the
\* dynamic_cast gives nullptr and enterFunction reads function->name through
\* it.  The process is killed by the fault, or the reads go through and give
\* an empty name, no parameters and a null body.
VisitNonFunctionNode ==
    /\ Running /\ top.k = "program" /\ top.i <= Len(program)
    /\ program[top.i].t # "Function"
    /\ UNCHANGED <<parseVars, preVars, lexVars, cpuVars, asmCall>>
    /\ \/ /\ status' = "crashed"
          /\ frames' = <<>>
          /\ UNCHANGED <<generatedCode, localVarStack, localVarOffset,
                         totalLocalVarOffset, currentArgOffset, currentFunctionName>>
       \/ /\ currentFunctionName' = ""
          /\ localVarOffset' = 0
          /\ totalLocalVarOffset' = 0
          /\ currentArgOffset' = 16
          /\ localVarStack' = Append(localVarStack, EmptyMap)
          /\ generatedCode' = generatedCode \o EmitFunctionPrologue("")
          /\ frames' = <<BlockFrame(NullNode), [k |-> "function"],
                         [top EXCEPT !.i = top.i + 1]>> \o Tail(frames)
          /\ UNCHANGED status
    /\ UNCHANGED <<program, typedefs, structDefinitions, labelCounter,
                   loopContextStack, blockTrace>>

(***************************************************************************)
(* visitBlockNode                                                          *)
(***************************************************************************)
VisitBlockNode ==
    /\ Running /\ top.k = "block"
    /\ UNCHANGED <<parseVars, preVars, lexVars, cpuVars, asmCall>>
    /\ LET node == top.node
           raw == IF node.t = "null" THEN -1
                  ELSE CalculateLocalVariableSize(typedefs, structDefinitions,
                                                  node.statements)
           localVarSize == RoundUp(raw)
           code == generatedCode \o BlockEntryLines(localVarSize)
       IN
       IF raw < 0 THEN Exit
       ELSE
        /\ generatedCode' = code
        /\ localVarStack' = Append(localVarStack, EmptyMap)
        /\ totalLocalVarOffset' = IF localVarSize > 0
                                  THEN totalLocalVarOffset + localVarSize
                                  ELSE totalLocalVarOffset
        /\ IF node.statements = <<>>
           THEN /\ frames' = Tail(frames)
                /\ blockTrace' = Append(blockTrace,
                      BlockRecord(Len(generatedCode), code, Len(localVarStack),
                                  Len(localVarStack) + 1))
           ELSE /\ frames' = <<[k |-> "stmts", node |-> node, i |-> 1,
                                localVarSize |-> localVarSize,
                                entry |-> Len(generatedCode),
                                depthIn |-> Len(localVarStack)]>> \o Tail(frames)
                /\ blockTrace' = blockTrace
        /\ UNCHANGED <<program, typedefs, structDefinitions, localVarOffset,
                       labelCounter, currentArgOffset, currentFunctionName,
                       loopContextStack, status>>

VisitBlockNodeExit ==
    /\ Running /\ top.k = "stmts" /\ top.i > Len(top.node.statements)
    /\ UNCHANGED <<parseVars, preVars, lexVars, cpuVars, asmCall>>
    /\ LET code == generatedCode \o BlockExitLines(top.localVarSize) IN
        /\ generatedCode' = code
        /\ totalLocalVarOffset' = IF top.localVarSize > 0
                                  THEN totalLocalVarOffset - top.localVarSize
                                  ELSE totalLocalVarOffset
        /\ localVarStack' = PopBack(localVarStack)
        /\ blockTrace' = Append(blockTrace,
              BlockRecord(top.entry, code, top.depthIn, Len(localVarStack) - 1))
    /\ frames' = Tail(frames)
    /\ UNCHANGED <<program, typedefs, structDefinitions, localVarOffset, labelCounter,
                   currentArgOffset, currentFunctionName, loopContextStack, status>>

\* the default branch of the statement switch, lines 344-347
UnhandledStatement ==
    /\ InLoop
    /\ UNCHANGED <<parseVars, preVars, lexVars, cpuVars, asmCall>>
    /\ stmt.t \notin {"VarDecl", "VarDeclAssign", "Assign", "Return", "If", "While",
                      "FunctionCall", "Switch"}
    /\ Exit

(***************************************************************************)
(* Declarations, assignments, returns, calls                               *)
(***************************************************************************)
\* addLocalVariable: the new localVarOffset
AddLocalVariableOffset(offset, size) == offset - size

VisitVarDeclNode ==
    /\ InLoop /\ stmt.t = "VarDecl"
    /\ UNCHANGED <<parseVars, preVars, lexVars, cpuVars, asmCall>>
    /\ LET size == ResolveTypeSize(typedefs, structDefinitions, stmt.type)
           off == AddLocalVariableOffset(localVarOffset, size) IN
        /\ localVarOffset' = off
        /\ totalLocalVarOffset' = totalLocalVarOffset + size
        /\ localVarStack' = SetInBack(localVarStack, stmt.name, off, stmt.type)
    /\ frames' = <<NextStmt>> \o Tail(frames)
    /\ UNCHANGED <<program, typedefs, structDefinitions, generatedCode, labelCounter,
                   currentArgOffset, currentFunctionName, loopContextStack,
                   blockTrace, status>>

VisitVarDeclAssignNode ==
    /\ InLoop /\ stmt.t = "VarDeclAssign"
    /\ UNCHANGED <<parseVars, preVars, lexVars, cpuVars, asmCall>>
    /\ LET size == ResolveTypeSize(typedefs, structDefinitions, stmt.type)
           off == AddLocalVariableOffset(localVarOffset, size)
           stack == SetInBack(localVarStack, stmt.name, off, stmt.type)
           offset == GetLocalVariableOffset(stack, stmt.name).offset IN
        /\ localVarOffset' = off
        /\ totalLocalVarOffset' = totalLocalVarOffset + size
        /\ localVarStack' = stack
        /\ generatedCode' = generatedCode \o VisitExpressionNode(stmt.expression)
              \o <<StoreLine(StdToString(offset).sign, StdToString(offset).digits, "rax")>>
    /\ frames' = <<NextStmt>> \o Tail(frames)
    /\ UNCHANGED <<program, typedefs, structDefinitions, labelCounter, currentArgOffset,
                   currentFunctionName, loopContextStack, blockTrace, status>>

VisitAssignNode ==
    /\ InLoop /\ stmt.t = "Assign"
    /\ UNCHANGED <<parseVars, preVars, lexVars, cpuVars, asmCall>>
    /\ LET r == GetLocalVariableOffset(localVarStack, stmt.name)
           evaluated == generatedCode \o VisitExpressionNode(stmt.expression)
       IN
        /\ generatedCode' =
              IF ~r.found THEN evaluated
              ELSE Append(evaluated,
                          IF r.offset < 0
                          THEN StoreLine(StdToString(r.offset).sign,
                                         StdToString(r.offset).digits, "rax")
                          ELSE StoreLine("+", StdToString(r.offset).digits, "rax"))
        /\ status' = IF r.found THEN status ELSE "fatal"
        /\ frames' = IF r.found THEN <<NextStmt>> \o Tail(frames) ELSE <<>>
    /\ UNCHANGED <<program, typedefs, structDefinitions, localVarStack, localVarOffset,
                   totalLocalVarOffset, labelCounter, currentArgOffset,
                   currentFunctionName, loopContextStack, blockTrace>>

VisitReturnNode ==
    /\ InLoop /\ stmt.t = "Return"
    /\ UNCHANGED <<parseVars, preVars, lexVars, cpuVars, asmCall>>
    /\ generatedCode' = generatedCode
          \o ReturnLines(stmt, totalLocalVarOffset, currentFunctionName)
    /\ totalLocalVarOffset' = IF totalLocalVarOffset > 0 THEN 0 ELSE totalLocalVarOffset
    /\ frames' = <<NextStmt>> \o Tail(frames)
    /\ UNCHANGED <<program, typedefs, structDefinitions, localVarStack, localVarOffset,
                   labelCounter, currentArgOffset, currentFunctionName,
                   loopContextStack, blockTrace, status>>

VisitFunctionCallNode ==
    /\ InLoop /\ stmt.t = "FunctionCall"
    /\ UNCHANGED <<parseVars, preVars, lexVars, cpuVars, asmCall>>
    /\ generatedCode' = generatedCode \o FunctionCallLines(stmt)
    /\ frames' = <<NextStmt>> \o Tail(frames)
    /\ UNCHANGED <<program, typedefs, structDefinitions, localVarStack, localVarOffset,
                   totalLocalVarOffset, labelCounter, currentArgOffset,
                   currentFunctionName, loopContextStack, blockTrace, status>>

(***************************************************************************)
(* visitIfNode                                                             *)
(***************************************************************************)
ConditionLines(node, target) ==
    VisitExpressionNode(node.condition) \o <<Plain("cmp rax, 0"), JeLine(target)>>

\* visitIfNode with one label for both the else part and the end
IfFrameMut(node, n) ==
    [k |-> "if", node |-> node, elseLabel |-> UniqueLabel(n),
     endLabel |-> UniqueLabel(n), phase |-> "body"]

\* visitIfNode, lines 256-257
IfFrame(node, n) ==
    [k |-> "if", node |-> node, elseLabel |-> UniqueLabel(n),
     endLabel |-> UniqueLabel(n + 1), phase |-> "body"]

VisitIfNode ==
    /\ InLoop /\ stmt.t = "If"
    /\ UNCHANGED <<parseVars, preVars, lexVars, cpuVars, asmCall>>
    /\ labelCounter' = labelCounter + 2
    /\ generatedCode' = generatedCode
          \o ConditionLines(stmt, UniqueLabel(labelCounter))
    /\ frames' = <<BlockFrame(stmt.body), IfFrame(stmt, labelCounter), NextStmt>>
                    \o Tail(frames)
    /\ UNCHANGED <<program, typedefs, structDefinitions, localVarStack, localVarOffset,
                   totalLocalVarOffset, currentArgOffset, currentFunctionName,
                   loopContextStack, blockTrace, status>>

\* visitIfNode after the body block returned, and after the else part returned
VisitIfNodeResume ==
    /\ Running /\ top.k = "if"
    /\ UNCHANGED <<parseVars, preVars, lexVars, cpuVars, asmCall>>
    /\ LET afterBody == <<JmpLine(top.endLabel), LabelLine(top.elseLabel)>>
           else_ == top.node.else_
       IN
       IF top.phase = "body" /\ else_.t = "Block" THEN
           /\ generatedCode' = generatedCode \o afterBody
           /\ frames' = <<BlockFrame(else_), [top EXCEPT !.phase = "else"]>>
                           \o Tail(frames)
           /\ labelCounter' = labelCounter
       ELSE IF top.phase = "body" /\ else_.t = "If" THEN
           /\ generatedCode' = generatedCode \o afterBody
                 \o ConditionLines(else_, UniqueLabel(labelCounter))
           /\ frames' = <<BlockFrame(else_.body), IfFrame(else_, labelCounter),
                          [top EXCEPT !.phase = "else"]>> \o Tail(frames)
           /\ labelCounter' = labelCounter + 2
       ELSE
           /\ generatedCode' = generatedCode
                 \o (IF top.phase = "body" THEN afterBody ELSE <<>>)
                 \o <<LabelLine(top.endLabel)>>
           /\ frames' = Tail(frames)
           /\ labelCounter' = labelCounter
    /\ UNCHANGED <<program, typedefs, structDefinitions, localVarStack, localVarOffset,
                   totalLocalVarOffset, currentArgOffset, currentFunctionName,
                   loopContextStack, blockTrace, status>>

(***************************************************************************)
(* visitWhileNode                                                          *)
(***************************************************************************)
LoopContext(startLabel, endLabel) == [startLabel |-> startLabel, endLabel |-> endLabel]

VisitWhileNode ==
    /\ InLoop /\ stmt.t = "While"
    /\ UNCHANGED <<parseVars, preVars, lexVars, cpuVars, asmCall>>
    /\ LET startLabel == UniqueLabel(labelCounter)
           endLabel == UniqueLabel(labelCounter + 1) IN
        /\ labelCounter' = labelCounter + 2
        /\ loopContextStack' = Append(loopContextStack, LoopContext(startLabel, endLabel))
        /\ generatedCode' = generatedCode \o <<LabelLine(startLabel)>>
              \o ConditionLines(stmt, endLabel)
        /\ frames' = <<BlockFrame(stmt.body),
                       [k |-> "while", startLabel |-> startLabel, endLabel |-> endLabel],
                       NextStmt>> \o Tail(frames)
    /\ UNCHANGED <<program, typedefs, structDefinitions, localVarStack, localVarOffset,
                   totalLocalVarOffset, currentArgOffset, currentFunctionName,
                   blockTrace, status>>

VisitWhileNodeResume ==
    /\ Running /\ top.k = "while"
    /\ UNCHANGED <<parseVars, preVars, lexVars, cpuVars, asmCall>>
    /\ generatedCode' = generatedCode
          \o <<JmpLine(top.startLabel), LabelLine(top.endLabel)>>
    /\ loopContextStack' = PopBack(loopContextStack)
    /\ frames' = Tail(frames)
    /\ UNCHANGED <<program, typedefs, structDefinitions, localVarStack, localVarOffset,
                   totalLocalVarOffset, labelCounter, currentArgOffset,
                   currentFunctionName, blockTrace, status>>

(***************************************************************************)
(* visitSwitchNode                                                         *)
(***************************************************************************)
SwitchFrame(node, n) ==
    [k |-> "switch", node |-> node, endLabel |-> UniqueLabel(n),
     defaultLabel |-> UniqueLabel(n + 1),
     caseLabels |-> [i \in 1..Len(node.cases) |-> UniqueLabel(n + 1 + i)],
     phase |-> "dispatch", i |-> 1]

RECURSIVE FirstDefault(_, _)
FirstDefault(cases, i) ==
    IF i > Len(cases) THEN 0
    ELSE IF cases[i].t = "Default" THEN i
    ELSE FirstDefault(cases, i + 1)

\* Runs visitSwitchNode from the position in f up to its next visitBlockNode
\* call (call # NullNode, frame = where to resume) or to its end.
RECURSIVE SwitchRun(_)
SwitchRun(f) ==
    LET cases == f.node.cases
        n == Len(cases)
        Then(lines, g) == LET r == SwitchRun(g) IN [r EXCEPT !.lines = lines \o r.lines]
    IN
    IF f.phase = "dispatch" THEN
        IF f.i > n THEN
            Then(<<JmpLine(f.endLabel)>>, [f EXCEPT !.phase = "bodies", !.i = 1])
        ELSE IF cases[f.i].t = "Case" THEN
            [lines |-> <<>>, call |-> cases[f.i].body,
             frame |-> [f EXCEPT !.phase = "compare"]]
        ELSE IF cases[f.i].t = "Default" THEN
            Then(<<JmpLine(f.defaultLabel)>>, [f EXCEPT !.i = f.i + 1])
        ELSE Then(<<>>, [f EXCEPT !.i = f.i + 1])
    ELSE IF f.phase = "compare" THEN
        Then(<<Plain("cmp rbx, rax"), JeLine(f.caseLabels[f.i])>>,
             [f EXCEPT !.phase = "dispatch", !.i = f.i + 1])
    ELSE IF f.phase = "bodies" THEN
        IF f.i > n THEN
            LET d == FirstDefault(cases, 1) IN
            IF d = 0 THEN Then(<<LabelLine(f.defaultLabel)>>, [f EXCEPT !.phase = "end"])
            ELSE [lines |-> <<LabelLine(f.defaultLabel)>>, call |-> cases[d].body,
                  frame |-> [f EXCEPT !.phase = "end"]]
        ELSE IF cases[f.i].t = "Case" THEN
            [lines |-> <<LabelLine(f.caseLabels[f.i])>>, call |-> cases[f.i].body,
             frame |-> [f EXCEPT !.i = f.i + 1]]
        ELSE Then(<<LabelLine(f.caseLabels[f.i])>>, [f EXCEPT !.i = f.i + 1])
    ELSE [lines |-> <<LabelLine(f.endLabel)>>, call |-> NullNode, frame |-> f]

SwitchContinue(r, rest) ==
    IF r.call = NullNode THEN rest
    ELSE <<BlockFrame(r.call), r.frame>> \o rest

VisitSwitchNode ==
    /\ InLoop /\ stmt.t = "Switch"
    /\ UNCHANGED <<parseVars, preVars, lexVars, cpuVars, asmCall>>
    /\ LET r == SwitchRun(SwitchFrame(stmt, labelCounter)) IN
        /\ labelCounter' = labelCounter + 2 + Len(stmt.cases)
        /\ generatedCode' = generatedCode \o VisitExpressionNode(stmt.condition)
              \o <<Plain("mov rbx, rax")>> \o r.lines
        /\ frames' = SwitchContinue(r, <<NextStmt>> \o Tail(frames))
    /\ UNCHANGED <<program, typedefs, structDefinitions, localVarStack, localVarOffset,
                   totalLocalVarOffset, currentArgOffset, currentFunctionName,
                   loopContextStack, blockTrace, status>>

VisitSwitchNodeResume ==
    /\ Running /\ top.k = "switch"
    /\ UNCHANGED <<parseVars, preVars, lexVars, cpuVars, asmCall>>
    /\ LET r == SwitchRun(top) IN
        /\ generatedCode' = generatedCode \o r.lines
        /\ frames' = SwitchContinue(r, Tail(frames))
    /\ UNCHANGED <<program, typedefs, structDefinitions, localVarStack, localVarOffset,
                   totalLocalVarOffset, labelCounter, currentArgOffset,
                   currentFunctionName, loopContextStack, blockTrace, status>>

(***************************************************************************)
(* The programs handed to the generator: syntax trees of the shapes the    *)
(* parser builds (ast.hpp), over a small vocabulary.                       *)
(***************************************************************************)
Lit0 == LiteralNode("0")
Lit1 == LiteralNode("1")
IdA == IdentifierNode("a")
IdB == IdentifierNode("b")
AddAB == ExpressionNode(IdA, "+", IdB)
Add11 == ExpressionNode(Lit1, "+", Lit1)
LtA1 == ExpressionNode(IdA, "<", Lit1)
Mul == ExpressionNode(Add11, "*", Lit1)
Neg1 == ExpressionNode(NullNode, "-", Lit1)

ReturnExprs == {NullNode, Lit0, IdA, Add11, Mul, Neg1}
CondExprs == {Lit1, LtA1}

ParamNames == <<"a", "b", "p3", "p4", "p5", "p6", "p7", "p8", "p9">>
Params(k) == [i \in 1..k |-> ParameterNode("int32", ParamNames[i])]
Args(k) == [i \in 1..k |-> IF i = 1 THEN Add11 ELSE Lit1]

Decls == {VarDeclNode("int32", "x"), VarDeclNode("word", "w"),
          VarDeclAssignNode("int64", "c", AddAB), VarDeclAssignNode("int8", "t", Lit1)}
Returns == {ReturnNode(e) : e \in ReturnExprs}
Calls == {FunctionCallNode("f", Args(k)) : k \in {0, 1, 2, MaxArgs}}
Leaves == Decls \cup Returns \cup Calls
            \cup {AssignNode("a", Add11), AssignNode("p7", Lit1), AssignNode("c", Lit1),
                  VarDeclNode("bool", "flag"), BreakNode, ContinueNode}

InnerBlocks ==
    {BlockNode(<<>>)} \cup {BlockNode(<<s>>) : s \in Leaves}
      \cup {BlockNode(<<d, s>>) : d \in Decls, s \in Leaves \ Decls}
      \cup {BlockNode(<<d, e>>) : d \in {VarDeclNode("int32", "x")},
                                  e \in Decls \ {VarDeclNode("int32", "x")}}
      \cup {BlockNode(<<r, ReturnNode(Lit0)>>) : r \in Returns}
      \cup {BlockNode(<<VarDeclNode("word", "w"), VarDeclAssignNode("int64", "c", AddAB)>>),
            BlockNode(<<VarDeclNode("int32", "x"), VarDeclNode("word", "w"),
                        VarDeclAssignNode("int64", "c", AddAB)>>)}

SmallBlocks ==
    {BlockNode(<<>>), BlockNode(<<ReturnNode(Add11)>>), BlockNode(<<BreakNode>>),
     BlockNode(<<VarDeclNode("int32", "x"), FunctionCallNode("f", Args(MaxArgs))>>)}

Compounds ==
    {IfNode(LtA1, b, NullNode) : b \in InnerBlocks}
      \cup {IfNode(Lit1, b, e) : b \in SmallBlocks, e \in SmallBlocks}
      \cup {IfNode(LtA1, b, IfNode(LtA1, e, NullNode)) : b \in SmallBlocks,
                                                         e \in SmallBlocks}
      \cup {WhileNode(c, b) : c \in CondExprs, b \in InnerBlocks}
      \cup {SwitchNode(IdA, <<CaseNode(Lit1, b)>>) : b \in InnerBlocks}
      \cup {SwitchNode(Add11, <<CaseNode(Lit0, b), DefaultNode(e)>>) :
                b \in SmallBlocks, e \in SmallBlocks}
      \cup {SwitchNode(Add11, <<DefaultNode(e), CaseNode(Lit0, b), CaseNode(Lit1, b)>>) :
                b \in SmallBlocks, e \in SmallBlocks}

Nested ==
    {WhileNode(LtA1, BlockNode(<<s>>)) :
        s \in {IfNode(LtA1, b, NullNode) : b \in SmallBlocks}
                \cup {SwitchNode(IdA, <<CaseNode(Lit1, b)>>) : b \in SmallBlocks}
                \cup {WhileNode(Lit1, b) : b \in SmallBlocks}}
      \cup {SwitchNode(IdA, <<CaseNode(Lit1, BlockNode(<<WhileNode(Lit1, b)>>))>>) :
                b \in SmallBlocks}

Pres == {<<>>, <<VarDeclNode("int32", "y")>>, <<VarDeclAssignNode("int64", "d", Add11)>>}
Posts == {<<>>, <<ReturnNode(AddAB)>>}

Bodies ==
    {b : b \in InnerBlocks}
      \cup {BlockNode(pre \o <<s>> \o post) :
                pre \in Pres, s \in Compounds \cup Nested, post \in Posts}

ParamCounts == {0, 2, MaxArgs}

\* function main(void) -> int32 { return 0; };
ReturnZero == <<FunctionNode("main", "int32", <<>>, BlockNode(<<ReturnNode(Lit0)>>))>>

\* function f(int32 a, int32 b) -> int32 { int32 c = a + b; return c; };
AddTwo ==
    <<FunctionNode("f", "int32", Params(2),
        BlockNode(<<VarDeclAssignNode("int32", "c", AddAB),
                    ReturnNode(IdentifierNode("c"))>>))>>

\* statements that make labels, nested in one another
Labelled ==
    {IfNode(LtA1, BlockNode(<<>>), IfNode(LtA1, BlockNode(<<>>), NullNode)),
     WhileNode(Lit1, BlockNode(<<IfNode(Lit1, BlockNode(<<>>), BlockNode(<<>>))>>)),
     SwitchNode(IdA, <<CaseNode(Lit1, BlockNode(<<WhileNode(Lit1, BlockNode(<<>>))>>)),
                       DefaultNode(BlockNode(<<>>))>>)}

Programs ==
    {ReturnZero, AddTwo}
      \cup {<<FunctionNode("f", "int32", Params(2), BlockNode(<<s1>>)),
              FunctionNode("g", "int32", <<>>, BlockNode(<<s2>>))>> :
                s1 \in Labelled, s2 \in Labelled}
      \cup {<<FunctionNode("f", "int32", Params(k), b)>> : k \in ParamCounts, b \in Bodies}
      \cup {<<FunctionNode("f", "int32", Params(2), b),
              FunctionNode("main", "int32", <<>>, BlockNode(<<ReturnNode(r)>>))>> :
                b \in SmallBlocks, r \in {Lit0, Add11}}

(***************************************************************************)
(* Generation: CodeGenerator(typedefs, structs).generate(program)          *)
(***************************************************************************)
Init ==
    /\ program \in Programs
    /\ typedefs = ("word" :> "int64")
    /\ structDefinitions = [x \in {} |-> <<>>]
    /\ generatedCode = <<>>
    /\ localVarStack = <<>>
    /\ localVarOffset = 0
    /\ totalLocalVarOffset = 0
    /\ labelCounter = 0
    /\ currentArgOffset = 0
    /\ currentFunctionName = ""
    /\ loopContextStack = <<>>
    /\ frames = <<[k |-> "program", i |-> 1]>>
    /\ blockTrace = <<>>
    /\ status = "running"
    /\ tokens = <<>>
    /\ current = 0
    /\ existing_types = <<>>
    /\ existing_functions = <<>>
    /\ existing_variables = <<>>
    /\ statements = <<>>
    /\ pstatus = "idle"
    /\ files = EmptyMap
    /\ cwd = <<>>
    /\ includePaths = <<>>
    /\ macros = EmptyMap
    /\ stream = <<>>
    /\ output = <<>>
    /\ ppstatus = "idle"
    /\ filename = <<>>
    /\ source = <<>>
    /\ start = 0
    /\ lstatus = "idle"
    /\ expr = NullNode
    /\ cpu = PoweredOff
    /\ asmCall = NotCalled

Next ==
    \/ VisitFunctionNode
    \/ ExitFunction
    \/ VisitProgramNodeDone
    \/ VisitBlockNode
    \/ VisitBlockNodeExit
    \/ UnhandledStatement
    \/ VisitVarDeclNode
    \/ VisitVarDeclAssignNode
    \/ VisitAssignNode
    \/ VisitReturnNode
    \/ VisitFunctionCallNode
    \/ VisitIfNode
    \/ VisitIfNodeResume
    \/ VisitWhileNode
    \/ VisitWhileNodeResume
    \/ VisitSwitchNode
    \/ VisitSwitchNodeResume

Spec == Init /\ [][Next]_vars

(***************************************************************************)
(* Struct-typed variables: enterScope, addLocalVariable and                *)
(* visitStructMemberAccessNode applied one after the other to the nodes of *)
(* `program`.  No visit function of the generator calls                    *)
(* visitStructMemberAccessNode, so it is applied to its node directly.     *)
(***************************************************************************)
\* most nodes in such a sequence
MaxNodes == 2

StructMemberAccessNode(base, memberName) ==
    [t |-> "StructMemberAccess", base |-> base, memberName |-> memberName]

\* the struct typedefs of the translation unit: member types and names
DeclaredStructs ==
    ("Point" :> <<ParameterNode("int32", "x"), ParameterNode("int32", "y")>>)
        @@ ("Pair" :> <<ParameterNode("int8", "c"), ParameterNode("int64", "d")>>)

\* structDefinitions maps a name to a vector of strings; what fills it
\* (Parser::getStructs) is in none of the sources, so the strings are either
\* the member types or the member names
StructTables ==
    {[T \in DOMAIN DeclaredStructs |->
        [i \in 1..Len(DeclaredStructs[T]) |-> DeclaredStructs[T][i][field]]] :
            field \in {"type", "name"}}

\* typedefs with and without the entries NEWTYPE -> struct of struct typedefs
TypedefTables ==
    {("word" :> "int64"),
     ("word" :> "int64") @@ [T \in DOMAIN DeclaredStructs |-> "struct"]}

TypeNames ==
    {"void", "char", "float", "bool", "int8", "int16", "int32", "int64",
     "uint8", "uint16", "uint32", "uint64", "word", "Point", "Pair", "unknown"}

AccessNodes ==
    {VarDeclNode(type, "p") : type \in TypeNames} \cup {VarDeclNode("Pair", "q")}
        \cup {StructMemberAccessNode(IdentifierNode("p"), m) : m \in {"x", "y", "z"}}
        \cup {StructMemberAccessNode(IdentifierNode("q"), m) : m \in {"c", "d"}}

RECURSIVE NodeSequences(_)
NodeSequences(n) ==
    IF n = 0 THEN {<<>>}
    ELSE LET shorter == NodeSequences(n - 1)
         IN shorter \cup {Append(s, n2) : s \in shorter, n2 \in AccessNodes}

\* getVariableType: innermost scope first; "" is printError + exit
RECURSIVE GetVariableType(_, _)
GetVariableType(stack, name) ==
    IF stack = <<>> THEN ""
    ELSE IF name \in DOMAIN Last(stack) THEN Last(stack)[name].type
         ELSE GetVariableType(PopBack(stack), name)

\* "mov rax, [rbp" + std::to_string(offset) + "]"
LoadLine(offset) ==
    Line("mov rax, [rbp..]", StdToString(offset).sign, "", StdToString(offset).digits)

AddRax(n) == Line("add rax,", "", "", n)

\* the member loop of visitStructMemberAccessNode: offset of memberName,
\* -1 for printFatal("Struct member not found"), -2 for the fatal exit of
\* resolveTypeSize
RECURSIVE MemberOffset(_, _, _, _, _)
MemberOffset(tds, sds, members, memberName, memberOffset) ==
    IF members = <<>> THEN -1
    ELSE IF Head(members) = memberName THEN memberOffset
    ELSE LET size == ResolveTypeSize(tds, sds, Head(members)) IN
         IF size < 0 THEN -2
         ELSE MemberOffset(tds, sds, Tail(members), memberName, memberOffset + size)

AtNode == Running /\ top.k = "nodes" /\ top.i <= Len(program) /\ localVarStack # <<>>

visited == program[top.i]

EnterScope ==
    /\ Running /\ top.k = "nodes" /\ localVarStack = <<>>
    /\ localVarStack' = Append(localVarStack, EmptyMap)
    /\ UNCHANGED <<program, typedefs, structDefinitions, generatedCode, localVarOffset,
                   totalLocalVarOffset, labelCounter, currentArgOffset,
                   currentFunctionName, loopContextStack, frames, blockTrace, status>>
    /\ UNCHANGED <<parseVars, preVars, lexVars, cpuVars, asmCall>>

AddLocalVariable ==
    /\ AtNode /\ visited.t = "VarDecl"
    /\ UNCHANGED <<parseVars, preVars, lexVars, cpuVars, asmCall>>
    /\ LET size == ResolveTypeSize(typedefs, structDefinitions, visited.type) IN
        IF size < 0 THEN Exit
        ELSE /\ localVarOffset' = AddLocalVariableOffset(localVarOffset, size)
             /\ totalLocalVarOffset' = totalLocalVarOffset + size
             /\ localVarStack' = SetInBack(localVarStack, visited.name,
                                           AddLocalVariableOffset(localVarOffset, size),
                                           visited.type)
             /\ frames' = <<NextStmt>>
             /\ UNCHANGED <<program, typedefs, structDefinitions, generatedCode,
                            labelCounter, currentArgOffset, currentFunctionName,
                            loopContextStack, blockTrace, status>>

VisitStructMemberAccessNode ==
    /\ AtNode /\ visited.t = "StructMemberAccess"
    /\ UNCHANGED <<parseVars, preVars, lexVars, cpuVars, asmCall>>
    /\ LET base == GetLocalVariableOffset(localVarStack, visited.base.name)
           structType == ResolveTypeName(typedefs,
                                         GetVariableType(localVarStack, visited.base.name))
           memberOffset ==
               IF structType \notin DOMAIN structDefinitions THEN -1
               ELSE MemberOffset(typedefs, structDefinitions,
                                 structDefinitions[structType], visited.memberName, 0)
       IN
        /\ generatedCode' =
              IF ~base.found THEN generatedCode
              ELSE IF memberOffset < 0 THEN Append(generatedCode, LoadLine(base.offset))
              ELSE generatedCode \o <<LoadLine(base.offset), AddRax(memberOffset)>>
        /\ status' = IF base.found /\ memberOffset >= 0 THEN status ELSE "fatal"
        /\ frames' = IF base.found /\ memberOffset >= 0 THEN <<NextStmt>> ELSE <<>>
    /\ UNCHANGED <<program, typedefs, structDefinitions, localVarStack, localVarOffset,
                   totalLocalVarOffset, labelCounter, currentArgOffset,
                   currentFunctionName, loopContextStack, blockTrace>>

InitAccess ==
    /\ program \in NodeSequences(MaxNodes)
    /\ typedefs \in TypedefTables
    /\ structDefinitions \in StructTables
    /\ generatedCode = <<>>
    /\ localVarStack = <<>>
    /\ localVarOffset = 0
    /\ totalLocalVarOffset = 0
    /\ labelCounter = 0
    /\ currentArgOffset = 0
    /\ currentFunctionName = ""
    /\ loopContextStack = <<>>
    /\ frames = <<[k |-> "nodes", i |-> 1]>>
    /\ blockTrace = <<>>
    /\ status = "running"
    /\ tokens = <<>>
    /\ current = 0
    /\ existing_types = <<>>
    /\ existing_functions = <<>>
    /\ existing_variables = <<>>
    /\ statements = <<>>
    /\ pstatus = "idle"
    /\ files = EmptyMap
    /\ cwd = <<>>
    /\ includePaths = <<>>
    /\ macros = EmptyMap
    /\ stream = <<>>
    /\ output = <<>>
    /\ ppstatus = "idle"
    /\ filename = <<>>
    /\ source = <<>>
    /\ start = 0
    /\ lstatus = "idle"
    /\ expr = NullNode
    /\ cpu = PoweredOff
    /\ asmCall = NotCalled

NextAccess ==
    \/ EnterScope
    \/ AddLocalVariable
    \/ VisitStructMemberAccessNode

SpecAccess == InitAccess /\ [][NextAccess]_vars

\* the size of a type of the language: built-ins, typedef names followed
\* to what they name, struct-backed names as the sum of their members; -1
\* for a name that is none of these
RECURSIVE SizeOf(_, _)
SizeOf(type, fuel) ==
    IF type \in {"int8", "uint8", "char", "bool"} THEN 1
    ELSE IF type \in {"int16", "uint16"} THEN 2
    ELSE IF type \in {"int32", "uint32", "float"} THEN 4
    ELSE IF type \in {"int64", "uint64"} THEN 8
    ELSE IF type \in DOMAIN DeclaredStructs
    THEN SumSeq([i \in 1..Len(DeclaredStructs[type]) |->
                    SizeOf(DeclaredStructs[type][i].type, fuel)])
    ELSE IF type \in DOMAIN typedefs /\ fuel > 0 THEN SizeOf(typedefs[type], fuel - 1)
    ELSE -1

\* index of the member called name in a struct's members, 0 if none
MemberIndex(members, name) ==
    LET S == {i \in 1..Len(members) : members[i].name = name}
    IN IF S = {} THEN 0 ELSE CHOOSE i \in S : TRUE

MemberAccess ==
    (AtNode /\ visited.t = "StructMemberAccess"
        /\ GetVariableType(localVarStack, visited.base.name) \in DOMAIN DeclaredStructs
        /\ MemberIndex(DeclaredStructs[GetVariableType(localVarStack, visited.base.name)],
                       visited.memberName) > 0) =>
        LET members == DeclaredStructs[GetVariableType(localVarStack, visited.base.name)]
            k == MemberIndex(members, visited.memberName)
        IN /\ status' = "running"
           /\ Last(generatedCode') =
                AddRax(SumSeq([i \in 1..(k - 1) |-> SizeOf(members[i].type, 2)]))

\* C14: visiting the access of a declared member of a variable of a
\* declared struct type ends without a fatal error and adds to rax the sum
\* of the sizes of the members declared before it.
C14_MemberOffset == [][MemberAccess]_vars

TypeSize ==
    (AtNode /\ visited.t = "VarDecl") =>
        /\ status' = "fatal" => SizeOf(visited.type, 2) < 0
        /\ status' = "running" => localVarOffset - localVarOffset' = SizeOf(visited.type, 2)

\* C15: addLocalVariable moves the frame offset down by the size of the
\* declared type (1, 2, 4 or 8 for the built-ins, the named type's size for
\* a typedef name, the members' sum for a struct-backed name) and is fatal
\* only for a name that is none of these.
C15_ResolveTypeSize == [][TypeSize]_vars

(***************************************************************************)
(* Reading the emitted code                                                *)
(***************************************************************************)
Indexes(code, line) == {i \in 1..Len(code) : code[i] = line}

\* the function whose body is being generated, read off the call stack
GeneratedFunction == program[Last(frames).i - 1]

\* rsp after an instruction, relative to rsp before it
RspDelta(line) ==
    IF line.op = "sub rsp," THEN -line.n
    ELSE IF line.op = "add rsp," THEN line.n
    ELSE IF line.op = "push" THEN -8
    ELSE IF line.op = "pop" THEN 8
    ELSE 0

\* successors of <<pc, rsp>> inside the span from..to; a jump to a label
\* outside the span leaves the span and is not followed
Successors(code, from, to, s) ==
    LET line == code[s[1]]
        next == {<<s[1] + 1, s[2] + RspDelta(line)>>}
        target == Indexes(code, Line("label", line.a, line.b, line.n))
        jump == {<<t, s[2]>> : t \in {u \in target : u >= from /\ u <= to}}
    IN IF line.op = "jmp" THEN jump
       ELSE IF line.op = "je" THEN jump \cup next
       ELSE next

RECURSIVE Reach(_, _, _, _, _)
Reach(code, from, to, seen, frontier) ==
    IF frontier = {} THEN seen
    ELSE LET inside == {s \in frontier : s[1] <= to /\ Abs(s[2]) <= RspWindow}
             new == (UNION {Successors(code, from, to, s) : s \in inside}) \ seen
         IN Reach(code, from, to, seen \cup new, new)

Paths(code, r) == Reach(code, r.from, r.to, {<<r.from, 0>>}, {<<r.from, 0>>})

\* rsp at the fall-through exit of a block span, relative to rsp at its entry
FallThroughDeltas(code, r) == {s[2] : s \in {x \in Paths(code, r) : x[1] = r.to + 1}}

\* C1: every function's lines hold `push rbp` immediately followed by
\* `mov rbp, rsp` right after its entry label, before any body code, and at
\* most one `.L_return_NAME:` label (exactly one once the function is
\* finished).
FunctionLayout ==
    \A k \in 1..Len(program) :
        LET name == program[k].name
            entries == Indexes(generatedCode, LabelLine(EntryLabel(name)))
            returns == Indexes(generatedCode, LabelLine(ReturnLabel(name)))
        IN /\ \A i \in entries :
                /\ i + 2 <= Len(generatedCode)
                /\ generatedCode[i + 1] = Line("push", "rbp", "", 0)
                /\ generatedCode[i + 2] = Plain("mov rbp, rsp")
                /\ \A j \in returns : j > i + 2
           /\ Cardinality(returns) <= 1
           /\ (status = "done" => Cardinality(entries) = 1 /\ Cardinality(returns) = 1)

\* C1: a Return statement, at whatever depth it is visited, ends its lines
\* with `jmp .L_return_NAME` for the function being generated.
ReturnJumps ==
    (InLoop /\ stmt.t = "Return") =>
        /\ Len(generatedCode') > Len(generatedCode)
        /\ Last(generatedCode') = JmpLine(ReturnLabel(GeneratedFunction.name))

\* C1: prologue order, a single return label per function, and a jump to
\* that label from every Return statement of the function.
C1_PrologueAndReturnLabel == [] FunctionLayout /\ [][ReturnJumps]_vars

C1_Witness ==
    /\ status = "done"
    /\ Len(frames) = 0
    /\ Cardinality(Indexes(generatedCode, JmpLine(ReturnLabel("f")))) >= 2
    /\ \E i \in 1..Len(generatedCode) :
          generatedCode[i].op = "label" /\ generatedCode[i].a = "L"

\* C2: along every path through the lines of a visited block that reaches
\* the block's exit by falling through, rsp is back at its entry value.
C2_BlockRspBalanced ==
    \A k \in 1..Len(blockTrace) :
        /\ FallThroughDeltas(generatedCode, blockTrace[k]) \subseteq {0}
        /\ \A s \in Paths(generatedCode, blockTrace[k]) : Abs(s[2]) <= RspWindow

C2_Witness ==
    \E k \in 1..Len(blockTrace) :
        LET r == blockTrace[k]
            ops == {generatedCode[i] : i \in r.from..r.to}
        IN /\ FallThroughDeltas(generatedCode, r) = {0}
           /\ SubRsp(16) \in ops
           /\ PushRax \in ops
           /\ PopRbx \in ops
           /\ AddRsp(8 * (MaxArgs - Len(argumentRegisters))) \in ops
           /\ MaxArgs > Len(argumentRegisters)

\* bytes of the declarations written directly in a block
RECURSIVE DeclaredBytes(_)
DeclaredBytes(stmts) ==
    IF stmts = <<>> THEN 0
    ELSE (IF Head(stmts).t \in {"VarDecl", "VarDeclAssign"}
          THEN ResolveTypeSize(typedefs, structDefinitions, Head(stmts).type)
          ELSE 0) + DeclaredBytes(Tail(stmts))

\* C3: right after a block is entered, the lines added for the entry are
\* a single `sub rsp, N` with N the declared bytes rounded up to the next
\* multiple of 16, or nothing when the block declares no locals.
C3_BlockAllocation ==
    (Running /\ top.k = "stmts" /\ top.i = 1) =>
        LET bytes == DeclaredBytes(top.node.statements)
            added == SubSeq(generatedCode, top.entry + 1, Len(generatedCode))
        IN IF bytes = 0 THEN added = <<>>
           ELSE /\ Len(added) = 1
                /\ added[1].op = "sub rsp,"
                /\ added[1].n % 16 = 0
                /\ added[1].n >= bytes
                /\ added[1].n - bytes < 16

C3_Witness ==
    /\ Running /\ top.k = "stmts" /\ top.i = 1
    /\ DeclaredBytes(top.node.statements) = 20
    /\ generatedCode[Len(generatedCode)] = SubRsp(32)

\* index in params of the register-passed parameter called name, 0 if none
RegisterParam(params, name) ==
    LET S == {i \in 1..Len(params) :
                 i <= Len(argumentRegisters) /\ params[i].name = name}
    IN IF S = {} THEN 0 ELSE CHOOSE i \in S : TRUE

IsParam(params, name) == \E i \in 1..Len(params) : params[i].name = name

\* C4: while a function is generated, its i-th register parameter
\* (counting from 0) is recorded at -8*(i+1) and every local of its body is
\* recorded strictly below -8*k, k the number of register parameters.
C4_LocalsBelowParameters ==
    (Running /\ currentFunctionName # "") =>
        LET params == GeneratedFunction.params
            k == IF Len(params) < Len(argumentRegisters) THEN Len(params)
                 ELSE Len(argumentRegisters)
        IN \A lvl \in 1..Len(localVarStack) :
             \A name \in DOMAIN localVarStack[lvl] :
                LET offset == localVarStack[lvl][name].offset IN
                IF RegisterParam(params, name) > 0
                THEN offset = -8 * RegisterParam(params, name)
                ELSE IsParam(params, name) \/ offset < -8 * k

\* the lines a step appends to the output
Appended == SubSeq(generatedCode', Len(generatedCode) + 1, Len(generatedCode'))

\* C5: a Return with an expression appends lines that evaluate the
\* expression before the jump: `mov rax, <text>` for a bare literal, and at
\* least one evaluation line for any other expression.
ReturnEvaluatesFirst ==
    (InLoop /\ stmt.t = "Return" /\ stmt.expression # NullNode) =>
        LET eval == {i \in 1..Len(Appended) :
                        Appended[i].op \notin {"add rsp,", "jmp"}}
            jump == Indexes(Appended, JmpLine(ReturnLabel(GeneratedFunction.name)))
        IN /\ eval # {}
           /\ jump # {}
           /\ \A i \in eval : \A j \in jump : i < j
           /\ stmt.expression.t = "Literal" =>
                Appended[1] = Line("mov rax,", "", stmt.expression.value, 0)

C5_ReturnValueBeforeJump == [][ReturnEvaluatesFirst]_vars

\* C6: a break (continue) visited while a while loop is open is compiled:
\* generation goes on and the step appends a jmp to the end (start) label
\* of the innermost open while.
BreakContinueJump ==
    (InLoop /\ stmt.t \in {"Break", "Continue"} /\ loopContextStack # <<>>) =>
        /\ status' = "running"
        /\ Appended = <<JmpLine(IF stmt.t = "Break"
                                 THEN Last(loopContextStack).endLabel
                                 ELSE Last(loopContextStack).startLabel)>>

C6_BreakContinueInWhile == [][BreakContinueJump]_vars

\* position in the call stack of the innermost switch being visited, 0 if none
InnermostSwitch ==
    LET S == {j \in 1..Len(frames) : frames[j].k = "switch"}
    IN IF S = {} THEN 0 ELSE CHOOSE j \in S : \A i \in S : j <= i

\* C7: while an arm body of a switch is being visited (and no while loop
\* has been opened inside that arm), the loop stack is non-empty and its top
\* end-label is the end label of that switch.
C7_SwitchArmLoopContext ==
    LET j == InnermostSwitch IN
    (Running /\ j > 1 /\ frames[j].phase \in {"bodies", "end"}
       /\ \A i \in 1..(j - 1) : frames[i].k # "while") =>
        /\ loopContextStack # <<>>
        /\ Last(loopContextStack).endLabel = frames[j].endLabel

\* number of parameters of the functions of the program called name
Arities(name) == {Len(program[k].params) : k \in {i \in 1..Len(program) : program[i].name = name}}

\* C8: a step that appends `call NAME` has evaluated as many arguments as
\* the definition of NAME has parameters.
CallArity ==
    (InLoop /\ stmt.t = "FunctionCall" /\ Line("call", "", stmt.name, 0) \in
        {Appended[i] : i \in 1..Len(Appended)}) =>
        Arities(stmt.name) = {Len(stmt.arguments)}

C8_CallArityMatches == [][CallArity]_vars

\* rsp at the last line of the output of a step, relative to rsp right
\* after the `push rbp` of the function being generated, on every path
\* from the function's entry to that line
RspAtCall(code) ==
    LET entry == CHOOSE e \in Indexes(code, LabelLine(EntryLabel(currentFunctionName))) :
                    \A d \in Indexes(code, LabelLine(EntryLabel(currentFunctionName))) : d <= e
        call == Len(code) - 1
    IN {s[2] : s \in {x \in Paths(code, [from |-> entry + 2, to |-> call]) : x[1] = call}}

\* C16: at the `call` a step emits, the bytes subtracted and pushed since
\* the function's `push rbp` are a multiple of 16 on every path to it.
CallAligned ==
    (InLoop /\ stmt.t = "FunctionCall") =>
        \A delta \in RspAtCall(generatedCode') : delta % 16 = 0

C16_CallAlignment == [][CallAligned]_vars

\* bytes subtracted from rsp by the blocks of the call stack that are open
OpenBlockBytes ==
    SumSeq([i \in 1..Len(frames) |->
                IF frames[i].k = "stmts" THEN frames[i].localVarSize ELSE 0])

ReturnReleasesOpenBlocks ==
    (InLoop /\ stmt.t = "Return") =>
        LET adds == {i \in 1..Len(Appended) : Appended[i].op = "add rsp,"}
        IN IF OpenBlockBytes = 0 THEN adds = {}
           ELSE /\ Cardinality(adds) = 1
                /\ \A i \in adds : Appended[i] = AddRsp(OpenBlockBytes)

\* C21: a Return appends one `add rsp, N` with N the bytes that the open
\* blocks of the function have subtracted from rsp, and no `add rsp` when
\* that is 0; this holds for every Return of a function.
C21_ReturnReleasesOpenBlocks == [][ReturnReleasesOpenBlocks]_vars

\* C22: the dispatch of a switch visits no block: visitSwitchNode is never
\* suspended in a visitBlockNode call between a case and its
\* `cmp rbx, rax`, so each case body is emitted once, after the dispatch.
C22_SwitchDispatch ==
    \A j \in 1..Len(frames) : frames[j].k = "switch" => frames[j].phase # "compare"

\* the lines that define the label L<n>
LabelDefinitions(n) == Indexes(generatedCode, LabelLine(UniqueLabel(n)))

UniqueLabelDefinitions ==
    \A i \in 1..Len(generatedCode) :
        (generatedCode[i].op = "label" /\ generatedCode[i].a = "L") =>
            /\ LabelDefinitions(generatedCode[i].n) = {i}
            /\ generatedCode[i].n < labelCounter

JumpTargetsDefined ==
    status = "done" =>
        \A i \in 1..Len(generatedCode) :
            (generatedCode[i].op \in {"je", "jmp"} /\ generatedCode[i].a = "L") =>
                Cardinality(LabelDefinitions(generatedCode[i].n)) = 1

SignedLoadLine(offset) ==
    Line("mov rax, [rbp..]", IF offset < 0 THEN "-" ELSE "+", "", Abs(offset))

IdentifierOperandLoaded ==
    LET e == IF stmt.t = "If" THEN stmt.condition ELSE stmt.expression IN
    (/\ InLoop /\ stmt.t \in {"Return", "VarDeclAssign", "Assign", "If"}
     /\ e.t = "Expression" /\ e.left.t = "Identifier"
     /\ GetLocalVariableOffset(localVarStack, e.left.name).found) =>
        /\ Appended # <<>>
        /\ Appended[1] =
              SignedLoadLine(GetLocalVariableOffset(localVarStack, e.left.name).offset)

\* C25: the lines of an expression whose left operand is an identifier
\* begin with the load of that variable from its recorded slot,
\* `mov rax, [rbp-8]` for the first register parameter.
C25_IdentifierOperandLoaded == [][IdentifierOperandLoaded]_vars

\* C27: every returned visitBlockNode call left localVarStack at the depth
\* it found, and localVarStack is empty between two functions and at the end.
C27_BlockScopeBalanced ==
    /\ \A k \in 1..Len(blockTrace) : blockTrace[k].depthIn = blockTrace[k].depthOut
    /\ (Running /\ top.k = "program") => localVarStack = <<>>
    /\ status = "done" => localVarStack = <<>>

\* C29: while the statements of a function body are visited, every slot
\* recorded below rbp starts at or above rsp, which is rbp minus the bytes
\* of the open blocks.
C29_SlotsInsideFrame ==
    (Running /\ top.k = "stmts") =>
        \A lvl \in 1..Len(localVarStack) :
            \A name \in DOMAIN localVarStack[lvl] :
                localVarStack[lvl][name].offset < 0 =>
                    localVarStack[lvl][name].offset >= -OpenBlockBytes

(***************************************************************************)
(* The parser (parser.cpp): token cursor and registries.  A parser state   *)
(* P carries the members a parse function reads and writes, the error it   *)
(* threw ("" when none) and the node it returned.                          *)
(***************************************************************************)
Token(type, value) == [type |-> type, value |-> value]

BuiltinTypes ==
    <<"void", "char", "float", "bool", "int8", "int16", "int32", "int64",
      "uint8", "uint16", "uint32", "uint64">>

Contains(seq, x) == \E i \in 1..Len(seq) : seq[i] = x

ParserState ==
    [current |-> current, existing_types |-> existing_types,
     existing_functions |-> existing_functions,
     existing_variables |-> existing_variables, err |-> "", node |-> NullNode]

Threw(P, message) == IF P.err # "" THEN P ELSE [P EXCEPT !.err = message]

Returned(P, node) == IF P.err # "" THEN P ELSE [P EXCEPT !.node = node]

\* consume(): the value read is PreviousValue of the result
Consume(ts, P) ==
    IF P.err # "" THEN P
    ELSE IF P.current >= Len(ts) THEN Threw(P, "Unexpected end of input")
    ELSE [P EXCEPT !.current = P.current + 1]

PeekOk(ts, P, offset) == P.current + offset < Len(ts)

Peek(ts, P, offset) == ts[P.current + offset + 1]

PreviousValue(ts, P) == ts[P.current].value

Check(ts, P, type) == P.current < Len(ts) /\ ts[P.current + 1].type = type

Expect(ts, P, type, message) ==
    IF P.err # "" THEN P
    ELSE IF ~Check(ts, P, type) THEN Threw(P, message)
    ELSE Consume(ts, P)

IsType(P, name) == Contains(P.existing_types, name)

\* error(peek(), message): peek() itself throws at the end of the tokens
ErrorAtPeek(ts, P, offset, message) ==
    IF PeekOk(ts, P, offset) THEN Threw(P, message)
    ELSE Threw(P, "Unexpected end of input")

\* type = consume().value; if (!isType(type)) error(peek(), message)
ConsumeType(ts, P, message) ==
    LET c == Consume(ts, P) IN
    IF c.err # "" THEN c
    ELSE IF ~IsType(c, PreviousValue(ts, c)) THEN ErrorAtPeek(ts, c, 0, message)
    ELSE c

\* the parameter list between the parentheses; node = the ParameterNodes
RECURSIVE ParseMoreParameters(_, _, _)
ParseMoreParameters(ts, P, params) ==
    IF P.err # "" THEN P
    ELSE IF ~Check(ts, P, "COMMA") THEN Returned(P, params)
    ELSE LET t == ConsumeType(ts, Consume(ts, P), "Expect function parameter type.")
             n == Consume(ts, t)
         IN IF n.err # "" THEN n
            ELSE ParseMoreParameters(ts, n,
                    Append(params, ParameterNode(PreviousValue(ts, t),
                                                 PreviousValue(ts, n))))

ParseParameters(ts, P) ==
    IF P.err # "" THEN P
    ELSE IF Check(ts, P, "RIGHT_PAREN") THEN Returned(P, <<>>)
    ELSE LET t == ConsumeType(ts, P, "Expect function parameter type.")
             n == Consume(ts, t)
         IN IF n.err # "" THEN n
            ELSE ParseMoreParameters(ts, n,
                    <<ParameterNode(PreviousValue(ts, t), PreviousValue(ts, n))>>)

FunctionPrototypeNode(name, returnType, params) ==
    [t |-> "FunctionPrototype", name |-> name, returnType |-> returnType,
     params |-> params]

ParseFunctionPrototype(ts, P) ==
    LET kw == Expect(ts, P, "FUNCTION", "Expect 'function' keyword.")
        nm == Consume(ts, kw)
    IN IF nm.err # "" THEN nm ELSE
    LET name == PreviousValue(ts, nm)
        reg == [nm EXCEPT !.existing_functions = Append(nm.existing_functions, name)]
        lp == Expect(ts, reg, "LEFT_PAREN", "Expect '(' after function name.")
        ps == ParseParameters(ts, lp)
        rp == Expect(ts, ps, "RIGHT_PAREN", "Expect ')' after function parameters.")
        mi == Expect(ts, rp, "MINUS", "Expect '->' after function parameters.")
        gt == Expect(ts, mi, "GREATER", "Expect '>' after function return type.")
        rt == ConsumeType(ts, gt, "Expect function return type.")
        sc == Expect(ts, rt, "SEMICOLON", "Expect ';' after function prototype.")
    IN IF sc.err # "" THEN sc
       ELSE Returned(sc, FunctionPrototypeNode(name, PreviousValue(ts, rt), ps.node))

StructNode(members) == [t |-> "Struct", members |-> members]

RECURSIVE ParseStructMembers(_, _, _)
ParseStructMembers(ts, P, members) ==
    IF P.err # "" THEN P
    ELSE IF Check(ts, P, "RIGHT_BRACE") \/ Check(ts, P, "EOF_TOKEN")
    THEN Returned(P, members)
    ELSE LET t == Consume(ts, P) IN
         IF t.err # "" THEN t
         ELSE IF ~IsType(t, PreviousValue(ts, t))
         THEN Threw(t, "Expect struct member type.")
         ELSE LET n == Consume(ts, t) IN
              IF n.err # "" THEN n
              ELSE IF \E i \in 1..Len(members) : members[i].name = PreviousValue(ts, n)
              THEN Threw(n, "Duplicated struct member name.")
              ELSE ParseStructMembers(ts, n,
                      Append(members, ParameterNode(PreviousValue(ts, t),
                                                    PreviousValue(ts, n))))

ParseStruct(ts, P) ==
    LET kw == Expect(ts, P, "STRUCT", "Expect 'struct' keyword.")
        lb == Expect(ts, kw, "LEFT_BRACE", "Expect '{' after 'struct' keyword.")
        ms == ParseStructMembers(ts, lb, <<>>)
        rb == Expect(ts, ms, "RIGHT_BRACE", "Expect '}' after struct members.")
    IN Returned(rb, StructNode(ms.node))

\* the std::string alternative of TypedefNode::old_type
TypeName(name) == [t |-> "TypeName", name |-> name]

TypedefNode(new_type, old_type) ==
    [t |-> "Typedef", new_type |-> new_type, old_type |-> old_type]

ParseTypedef(ts, P) ==
    LET kw == Expect(ts, P, "TYPEDEF", "Expect 'typedef' keyword.")
        old == IF kw.err # "" THEN kw
               ELSE IF Check(ts, kw, "STRUCT") THEN ParseStruct(ts, kw)
               ELSE LET c == ConsumeType(ts, kw, "Expect typedef type.")
                    IN Returned(c, TypeName(PreviousValue(ts, c)))
        nw == Consume(ts, old)
    IN IF nw.err # "" THEN nw ELSE
    LET new_type == PreviousValue(ts, nw)
        chk == IF IsType(nw, new_type) THEN Threw(nw, "Can not redefine type") ELSE nw
        sc == Expect(ts, chk, "SEMICOLON", "Expect ';' after typedef.")
    IN Returned(sc, TypedefNode(new_type, old.node))

\* initByAddr is the default argument of the constructor
GlobalVarDeclNode(type, name) ==
    [t |-> "GlobalVarDecl", type |-> type, name |-> name, initByAddr |-> FALSE]

ParseGlobalVarDecl(ts, P) ==
    LET t == Consume(ts, P) IN
    IF t.err # "" THEN t
    ELSE IF ~IsType(t, PreviousValue(ts, t))
    THEN Threw(t, "Expect global variable type.")
    ELSE LET n == Consume(ts, t) IN
         IF n.err # "" THEN n
         ELSE IF Contains(n.existing_variables, PreviousValue(ts, n))
         THEN Threw(n, "Duplicated global variable name.")
         ELSE LET reg == [n EXCEPT !.existing_variables =
                                      Append(n.existing_variables, PreviousValue(ts, n))]
                  sc == Expect(ts, reg, "SEMICOLON",
                               "Expect ';' after global variable declaration.")
              IN Returned(sc, GlobalVarDeclNode(PreviousValue(ts, t),
                                                PreviousValue(ts, n)))

ParseVarDecl(ts, P) ==
    LET t == ConsumeType(ts, P, "Expect variable type.")
        n == Consume(ts, t)
    IN IF n.err # "" THEN n
       ELSE IF Contains(n.existing_variables, PreviousValue(ts, n))
       THEN ErrorAtPeek(ts, n, 0, "Duplicated variable name.")
       ELSE LET reg == [n EXCEPT !.existing_variables =
                                    Append(n.existing_variables, PreviousValue(ts, n))]
                sc == Expect(ts, reg, "SEMICOLON",
                             "Expect ';' after variable declaration.")
            IN Returned(sc, VarDeclNode(PreviousValue(ts, t), PreviousValue(ts, n)))

\* parseFunctionCall is declared in parser.hpp and defined nowhere in the
\* sources; modelled from the grammar NAME ( args? ), args := or ( ',' or )*,
\* with NUMBER as the only argument expression.
RECURSIVE ParseArguments(_, _, _)
ParseArguments(ts, P, arguments) ==
    LET a == Expect(ts, P, "NUMBER", "Expect expression.") IN
    IF a.err # "" THEN a
    ELSE LET args == Append(arguments, LiteralNode(PreviousValue(ts, a))) IN
         IF Check(ts, a, "COMMA") THEN ParseArguments(ts, Consume(ts, a), args)
         ELSE Returned(a, args)

ParseFunctionCall(ts, P) ==
    LET nm == Consume(ts, P)
        lp == Expect(ts, nm, "LEFT_PAREN", "Expect '(' after function name.")
        as == IF lp.err # "" THEN lp
              ELSE IF Check(ts, lp, "RIGHT_PAREN") THEN Returned(lp, <<>>)
              ELSE ParseArguments(ts, lp, <<>>)
        rp == Expect(ts, as, "RIGHT_PAREN", "Expect ')' after arguments.")
    IN Returned(rp, FunctionCallNode(PreviousValue(ts, nm), as.node))

\* a statement form whose parse function (parseExpression, parseWhile,
\* parseIf, parseVarDeclAssign's initializer) is defined nowhere in the
\* sources; no token stream of TokenStreams leads here
NotInSource(P, callee) == Threw(P, callee)

IncrementNode(name) == [t |-> "Increment", name |-> name]
DecrementNode(name) == [t |-> "Decrement", name |-> name]

PeekIs(ts, P, offset, type) == PeekOk(ts, P, offset) /\ Peek(ts, P, offset).type = type

\* one statement of parseBlock that starts with a declared variable's name
ParseVariableStatement(ts, P) ==
    LET Postfix(type) == PeekIs(ts, P, 1, type) /\ PeekIs(ts, P, 2, type)
        Overrun(type) == PeekIs(ts, P, 1, type) /\ ~PeekOk(ts, P, 2)
        three == Consume(ts, Consume(ts, Consume(ts, P)))
    IN
    IF ~PeekOk(ts, P, 1) \/ Overrun("PLUS") THEN Threw(P, "Unexpected end of input")
    ELSE IF Postfix("PLUS")
    THEN Returned(Expect(ts, three, "SEMICOLON", "Expect ';' after increment statement."),
                  IncrementNode(Peek(ts, P, 0).value))
    ELSE IF Overrun("MINUS") THEN Threw(P, "Unexpected end of input")
    ELSE IF Postfix("MINUS")
    THEN Returned(Expect(ts, three, "SEMICOLON", "Expect ';' after decrement statement."),
                  DecrementNode(Peek(ts, P, 0).value))
    ELSE IF PeekIs(ts, P, 1, "ASSIGN") \/ PeekIs(ts, P, 1, "LEFT_BRACKET")
    THEN NotInSource(P, "parseExpression")
    ELSE Threw(P, "Unexpected token after identifier.")

\* the loop of parseBlock; node = the statements of the BlockNode
RECURSIVE ParseBlockLoop(_, _, _)
ParseBlockLoop(ts, P, stmts) ==
    LET Again(Q) == IF Q.err # "" THEN Q
                    ELSE ParseBlockLoop(ts, Q, Append(stmts, Q.node))
    IN
    IF P.err # "" THEN P
    ELSE IF Check(ts, P, "RIGHT_BRACE") \/ Check(ts, P, "EOF_TOKEN")
    THEN Returned(P, BlockNode(stmts))
    ELSE IF ~PeekOk(ts, P, 0) THEN Threw(P, "Unexpected end of input")
    ELSE IF IsType(P, Peek(ts, P, 0).value) /\ ~PeekOk(ts, P, 1)
    THEN Threw(P, "Unexpected end of input")
    ELSE IF IsType(P, Peek(ts, P, 0).value) /\ PeekIs(ts, P, 1, "IDENTIFIER") THEN
        IF ~PeekOk(ts, P, 2) THEN Threw(P, "Unexpected end of input")
        ELSE IF PeekIs(ts, P, 2, "SEMICOLON")
        THEN LET d == ParseVarDecl(ts, P)
             IN Again(Returned(Consume(ts, d), d.node))
        ELSE IF PeekIs(ts, P, 2, "ASSIGN") THEN NotInSource(P, "parseExpression")
        ELSE Threw(P, "Expect ';' or '=' after variable declaration.")
    ELSE IF Check(ts, P, "WHILE") THEN NotInSource(P, "parseWhile")
    ELSE IF Check(ts, P, "IF") THEN NotInSource(P, "parseIf")
    ELSE IF Check(ts, P, "RETURN") THEN NotInSource(P, "parseExpression")
    ELSE IF Check(ts, P, "CONTINUE")
    THEN Again(Returned(Expect(ts, Consume(ts, P), "SEMICOLON",
                               "Expect ';' after continue statement."), ContinueNode))
    ELSE IF Check(ts, P, "BREAK")
    THEN Again(Returned(Expect(ts, Consume(ts, P), "SEMICOLON",
                               "Expect ';' after break statement."), BreakNode))
    ELSE IF Check(ts, P, "IDENTIFIER") THEN
        IF Contains(P.existing_variables, Peek(ts, P, 0).value)
        THEN Again(ParseVariableStatement(ts, P))
        ELSE IF Contains(P.existing_functions, Peek(ts, P, 0).value)
        THEN LET c == ParseFunctionCall(ts, P)
             IN Again(Returned(Expect(ts, c, "SEMICOLON",
                                      "Expect ';' after function call."), c.node))
        ELSE Threw(P, "Undefined variable or function name.")
    ELSE NotInSource(P, "parseExpression")

ParseBlock(ts, P) == ParseBlockLoop(ts, P, <<>>)

ParseFunction(ts, P) ==
    LET kw == Expect(ts, P, "FUNCTION", "Expect 'function' keyword.")
        nm == Consume(ts, kw)
    IN IF nm.err # "" THEN nm ELSE
    LET name == PreviousValue(ts, nm)
        reg == IF Contains(nm.existing_functions, name)
               THEN Threw(nm, "Duplicated function name.")
               ELSE [nm EXCEPT !.existing_functions = Append(nm.existing_functions, name)]
        lp == Expect(ts, reg, "LEFT_PAREN", "Expect '(' after function name.")
        ps == ParseParameters(ts, lp)
        rp == Expect(ts, ps, "RIGHT_PAREN", "Expect ')' after function parameters.")
        mi == Expect(ts, rp, "MINUS", "Expect '->' after function declaration.")
        gt == Expect(ts, mi, "GREATER", "Expect '->' after function declaration.")
        rt == ConsumeType(ts, gt, "Expect function return type.")
        lb == Expect(ts, rt, "LEFT_BRACE", "Expect '{' after function declaration.")
        body == ParseBlock(ts, lb)
        rb == Expect(ts, body, "RIGHT_BRACE", "Expect '}' after function body.")
        sc == Expect(ts, rb, "SEMICOLON", "Expect ';' after function declaration.")
    IN IF sc.err # "" THEN sc
       ELSE Returned(sc, FunctionNode(name, PreviousValue(ts, rt), ps.node, body.node))

HeaderNode(prototypes) == [t |-> "Header", prototypes |-> prototypes]

RECURSIVE ParseHeaderLoop(_, _, _)
ParseHeaderLoop(ts, P, prototypes) ==
    LET Again(Q) == IF Q.err # "" THEN Q
                    ELSE ParseHeaderLoop(ts, Q, Append(prototypes, Q.node))
    IN
    IF P.err # "" THEN P
    ELSE IF Check(ts, P, "EOF_TOKEN") \/ Check(ts, P, "RIGHT_BRACE")
    THEN Returned(P, prototypes)
    ELSE IF Check(ts, P, "FUNCTION") THEN Again(ParseFunctionPrototype(ts, P))
    ELSE IF Check(ts, P, "TYPEDEF") THEN Again(ParseTypedef(ts, P))
    ELSE IF ~PeekOk(ts, P, 2) THEN Threw(P, "Unexpected end of input")
    ELSE IF PeekIs(ts, P, 2, "ASSIGN")
    THEN Threw(P, "Header does not allow for global variable initialization.")
    ELSE IF IsType(P, Peek(ts, P, 0).value) THEN Again(ParseGlobalVarDecl(ts, P))
    ELSE Threw(P, "Expect statement.")

ParseHeader(ts, P) ==
    LET ps == ParseHeaderLoop(ts, P, <<>>)
        rb == Expect(ts, ps, "RIGHT_BRACE", "Expect '}' after header.")
        sc == Expect(ts, rb, "SEMICOLON", "Expect ';' after header.")
    IN Returned(sc, HeaderNode(ps.node))

AsmNode(asm_source) == [t |-> "Asm", asm_source |-> asm_source]

\* the loop of parseAsm: it ends at the first '}' and, at a '{', repeats
\* without consuming a token, so it never returns
RECURSIVE ParseAsmLoop(_, _, _)
ParseAsmLoop(ts, P, asm_source) ==
    IF P.err # "" THEN P
    ELSE IF Check(ts, P, "RIGHT_BRACE") THEN Returned(P, asm_source)
    ELSE IF Check(ts, P, "LEFT_BRACE") THEN Threw(P, "parseAsm does not return")
    ELSE LET c == Consume(ts, P) IN
         IF c.err # "" THEN c
         ELSE ParseAsmLoop(ts, c, Append(asm_source, PreviousValue(ts, c)))

ParseAsm(ts, P) ==
    LET kw == Expect(ts, P, "INLINE_ASM", "Expect 'asm' keyword.")
        lb == Expect(ts, kw, "LEFT_BRACE", "Expect '{' after 'asm' keyword.")
        src == ParseAsmLoop(ts, lb, <<>>)
        rb == Expect(ts, src, "RIGHT_BRACE", "Expect '}' after inline asm block.")
        sc == Expect(ts, rb, "SEMICOLON", "Expect ';' after inline asm block.")
    IN Returned(sc, AsmNode(src.node))

(***************************************************************************)
(* Token streams: what the lexer hands to Parser(tokens)                   *)
(***************************************************************************)
\* addToken(type): punctuation and operators carry no text
Punctuation(type) == Token(type, "")
Identifier(name) == Token("IDENTIFIER", name)
Int32 == Token("INT32", "int32")
LeftParen == Punctuation("LEFT_PAREN")
RightParen == Punctuation("RIGHT_PAREN")
LeftBrace == Punctuation("LEFT_BRACE")
RightBrace == Punctuation("RIGHT_BRACE")
Semicolon == Punctuation("SEMICOLON")
EofToken == Token("EOF_TOKEN", "")

\* function NAME ( params ) -> int32
Signature(name, params) ==
    <<Token("FUNCTION", "function"), Identifier(name), LeftParen>> \o params
        \o <<RightParen, Punctuation("MINUS"), Punctuation("GREATER"), Int32>>

Prototype(name) == Signature(name, <<>>) \o <<Semicolon>>

Definition(name, params, body) ==
    Signature(name, params) \o <<LeftBrace>> \o body \o <<RightBrace, Semicolon>>

CallTokens(name, n) ==
    <<Identifier(name), LeftParen>>
        \o [i \in 1..(2 * n - 1) |-> IF i % 2 = 1 THEN Token("NUMBER", "1")
                                     ELSE Punctuation("COMMA")]
        \o <<RightParen, Semicolon>>

Items ==
    { <<Token("HEADER", "header"), LeftBrace>> \o Prototype("ping")
          \o <<RightBrace, Semicolon>>,
      <<Token("HEADER", "header")>> \o Prototype("ping") \o <<RightBrace, Semicolon>>,
      Definition("ping", <<>>, <<>>),
      Definition("main", <<>>, CallTokens("ping", 1)),
      Definition("f", <<Identifier("T"), Identifier("a")>>,
                 <<Token("BREAK", "break"), Semicolon>>),
      Definition("g", <<>>, <<Int32, Identifier("x"), Semicolon, Semicolon>>),
      <<Token("TYPEDEF", "typedef"), Int32, Identifier("T"), Semicolon>>,
      <<Token("TYPEDEF", "typedef"), Identifier("T"), Identifier("U"), Semicolon>>,
      <<Token("TYPEDEF", "typedef"), Int32, Token("INT64", "int64"), Semicolon>>,
      <<Token("TYPEDEF", "typedef"), Token("STRUCT", "struct"), LeftBrace, Int32,
        Identifier("m"), RightBrace, Identifier("S"), Semicolon>>,
      Definition("h", <<Int32, Identifier("a")>>,
                 <<Identifier("a"), Punctuation("PLUS"), Punctuation("PLUS"), Semicolon>>),
      Definition("k", <<>>,
                 <<Identifier("x"), Punctuation("MINUS"), Punctuation("MINUS"), Semicolon>>),
      Definition("m", <<>>, <<Int32, Identifier("x"), Semicolon, Semicolon>>),
      <<Token("TYPEDEF", "typedef"), Token("STRUCT", "struct"), LeftBrace,
        Int32, Identifier("x"), Semicolon, Int32, Identifier("y"), Semicolon,
        RightBrace, Identifier("Point"), Semicolon>>,
      <<Token("TYPEDEF", "typedef"), Token("STRUCT", "struct"), LeftBrace,
        Int32, Identifier("x"), Int32, Identifier("x"), RightBrace, Identifier("D"),
        Semicolon>>,
      <<Identifier("T"), Identifier("x"), Semicolon>>,
      <<Int32, Identifier("g"), Semicolon>>,
      <<Token("INLINE_ASM", "asm"), LeftBrace, Identifier("nop"), RightBrace,
        Semicolon>> }

RECURSIVE ItemSequences(_)
ItemSequences(n) ==
    IF n = 0 THEN {<<>>}
    ELSE LET shorter == ItemSequences(n - 1)
         IN shorter \cup {s \o i : s \in shorter, i \in Items}

TokenStreams == {s \o <<EofToken>> : s \in ItemSequences(MaxItems)}

(***************************************************************************)
(* Parser(tokens).parse(): one action per iteration of its loop            *)
(***************************************************************************)
InitParse ==
    /\ tokens \in TokenStreams
    /\ current = 0
    /\ existing_types = BuiltinTypes
    /\ existing_functions = <<>>
    /\ existing_variables = <<>>
    /\ statements = <<>>
    /\ pstatus = "running"
    /\ program = <<>>
    /\ typedefs = EmptyMap
    /\ structDefinitions = EmptyMap
    /\ generatedCode = <<>>
    /\ localVarStack = <<>>
    /\ localVarOffset = 0
    /\ totalLocalVarOffset = 0
    /\ labelCounter = 0
    /\ currentArgOffset = 0
    /\ currentFunctionName = ""
    /\ loopContextStack = <<>>
    /\ frames = <<>>
    /\ blockTrace = <<>>
    /\ status = "idle"
    /\ files = EmptyMap
    /\ cwd = <<>>
    /\ includePaths = <<>>
    /\ macros = EmptyMap
    /\ stream = <<>>
    /\ output = <<>>
    /\ ppstatus = "idle"
    /\ filename = <<>>
    /\ source = <<>>
    /\ start = 0
    /\ lstatus = "idle"
    /\ expr = NullNode
    /\ cpu = PoweredOff
    /\ asmCall = NotCalled

\* the members after a parse function returned or threw
Parsed(P) ==
    /\ current' = P.current
    /\ existing_types' = P.existing_types
    /\ existing_functions' = P.existing_functions
    /\ existing_variables' = P.existing_variables
    /\ statements' = IF P.err = "" THEN Append(statements, P.node) ELSE statements
    /\ pstatus' = IF P.err = "" THEN "running" ELSE P.err
    /\ UNCHANGED <<tokens, genVars, preVars, lexVars, cpuVars, asmCall>>

AtItem ==
    pstatus = "running" /\ asmCall.at = "none" /\ ~Check(tokens, ParserState, "EOF_TOKEN")

ParseProgram ==
    /\ pstatus = "running" /\ asmCall.at = "none"
    /\ Check(tokens, ParserState, "EOF_TOKEN")
    /\ pstatus' = "done"
    /\ UNCHANGED <<tokens, current, existing_types, existing_functions,
                   existing_variables, statements, genVars, preVars, lexVars, cpuVars, asmCall>>

ParseHeaderItem ==
    /\ AtItem /\ Check(tokens, ParserState, "HEADER")
    /\ Parsed(ParseHeader(tokens, Consume(tokens, ParserState)))

ParseFunctionItem ==
    /\ AtItem /\ Check(tokens, ParserState, "FUNCTION")
    /\ Parsed(ParseFunction(tokens, ParserState))

ParseTypedefItem ==
    /\ AtItem /\ Check(tokens, ParserState, "TYPEDEF")
    /\ Parsed(ParseTypedef(tokens, ParserState))

Dispatched(P) == \E type \in {"HEADER", "FUNCTION", "TYPEDEF"} : Check(tokens, P, type)

ParseGlobalVarDeclItem ==
    /\ AtItem /\ ~Dispatched(ParserState)
    /\ PeekOk(tokens, ParserState, 0)
    /\ IsType(ParserState, Peek(tokens, ParserState, 0).value)
    /\ Parsed(IF PeekIs(tokens, ParserState, 2, "SEMICOLON")
                   \/ PeekIs(tokens, ParserState, 2, "ASSIGN")
              THEN ParseGlobalVarDecl(tokens, ParserState)
              ELSE ErrorAtPeek(tokens, ParserState, 2,
                               "Expect ';' or '=' after type declaration."))

ParseAsmItem ==
    /\ AtItem /\ ~Dispatched(ParserState)
    /\ PeekOk(tokens, ParserState, 0)
    /\ ~IsType(ParserState, Peek(tokens, ParserState, 0).value)
    /\ Check(tokens, ParserState, "INLINE_ASM")
    /\ Parsed(ParseAsm(tokens, ParserState))

ExpectStatement ==
    /\ AtItem /\ ~Dispatched(ParserState)
    /\ PeekOk(tokens, ParserState, 0) =>
          /\ ~IsType(ParserState, Peek(tokens, ParserState, 0).value)
          /\ ~Check(tokens, ParserState, "INLINE_ASM")
    /\ Parsed(ErrorAtPeek(tokens, ParserState, 0, "Expect statement."))

NextParse ==
    \/ ParseProgram
    \/ ParseHeaderItem
    \/ ParseFunctionItem
    \/ ParseTypedefItem
    \/ ParseGlobalVarDeclItem
    \/ ParseAsmItem
    \/ ExpectStatement

SpecParse == InitParse /\ [][NextParse]_vars

\* the nodes parsed so far, those inside header blocks included
RECURSIVE Flattened(_)
Flattened(nodes) ==
    IF nodes = <<>> THEN <<>>
    ELSE (IF Head(nodes).t = "Header" THEN Head(nodes).prototypes ELSE <<Head(nodes)>>)
            \o Flattened(Tail(nodes))

NamesOf(nodes, kind, field) ==
    {nodes[i][field] : i \in {j \in 1..Len(nodes) : nodes[j].t = kind}}

PrototypeNames == NamesOf(Flattened(statements), "FunctionPrototype", "name")

\* C9: a full definition of NAME is turned down as a duplicate exactly
\* when NAME is in the function registry and was not introduced by a header
\* prototype.
DefinitionAccepted ==
    (pstatus = "running" /\ Check(tokens, ParserState, "FUNCTION")
        /\ PeekOk(tokens, ParserState, 1)) =>
        LET name == Peek(tokens, ParserState, 1).value IN
        (pstatus' = "Duplicated function name.")
            <=> (Contains(existing_functions, name) /\ name \notin PrototypeNames)

C9_DefinitionAfterPrototype == [][DefinitionAccepted]_vars

\* C10: while parsing goes on, the known types are the twelve built-ins
\* plus exactly the new names of the typedefs parsed so far.
C10_KnownTypes ==
    pstatus \in {"running", "done"} =>
        {existing_types[i] : i \in 1..Len(existing_types)}
            = {BuiltinTypes[i] : i \in 1..Len(BuiltinTypes)}
                \cup NamesOf(Flattened(statements), "Typedef", "new_type")

(***************************************************************************)
(* Scopes, struct bodies and header blocks                                 *)
(***************************************************************************)
Names(nodes) == {nodes[i].name : i \in 1..Len(nodes)}

\* the parameters of the definition at the cursor: function NAME ( params )
ParametersAt ==
    ParseParameters(tokens, Consume(tokens, Consume(tokens, Consume(tokens, ParserState)))).node

GlobalNames == NamesOf(Flattened(statements), "GlobalVarDecl", "name")

\* the names a parse that started at the current item has registered
DeclaredSince(P) ==
    {P.existing_variables[i] : i \in (Len(existing_variables) + 1)..Len(P.existing_variables)}

VariableStatements(block) ==
    {i \in 1..Len(block.statements) : block.statements[i].t \in {"Increment", "Decrement"}}

FunctionScope ==
    (AtItem /\ Check(tokens, ParserState, "FUNCTION")) =>
        LET r == ParseFunction(tokens, ParserState)
            inScope == Names(ParametersAt) \cup GlobalNames \cup DeclaredSince(r)
        IN /\ pstatus' = "Undefined variable or function name."
                => Peek(tokens, r, 0).value \notin inScope
           /\ pstatus' = "Duplicated variable name."
                => PreviousValue(tokens, r) \in inScope
           /\ pstatus' = "running"
                => \A i \in VariableStatements(r.node.body) :
                        r.node.body.statements[i].name \in inScope

\* C11: in a function body a leading identifier is taken as a variable
\* exactly when it is a parameter of that function, a global, or a local
\* declared earlier in the same function; names declared in an earlier
\* function neither count as declared nor as duplicates.
C11_FunctionScope == [][FunctionScope]_vars

\* the token index of a struct body's first member: typedef struct { ...
StructBodyAt == current + 4

\* the members of a struct body read by the grammar TYPE NAME ; ... }
RECURSIVE GrammarMembers(_, _)
GrammarMembers(ts, i) ==
    IF i + 2 > Len(ts) \/ ts[i].type = "RIGHT_BRACE" \/ ts[i + 2].type # "SEMICOLON"
    THEN <<>>
    ELSE <<ParameterNode(ts[i].value, ts[i + 1].value)>> \o GrammarMembers(ts, i + 3)

\* the body is TYPE NAME ; repeated up to } NAME ;
GrammarStruct(ts, i) ==
    LET members == GrammarMembers(ts, i)
        end == i + 3 * Len(members)
    IN /\ members # <<>>
       /\ end + 2 <= Len(ts)
       /\ ts[end].type = "RIGHT_BRACE"
       /\ ts[end + 1].type = "IDENTIFIER"
       /\ ts[end + 2].type = "SEMICOLON"
       /\ \A k \in 1..Len(members) : Contains(existing_types, members[k].type)

StructTypedef ==
    (AtItem /\ Check(tokens, ParserState, "TYPEDEF")
        /\ PeekIs(tokens, ParserState, 1, "STRUCT")
        /\ PeekIs(tokens, ParserState, 2, "LEFT_BRACE")
        /\ GrammarStruct(tokens, StructBodyAt)) =>
        LET members == GrammarMembers(tokens, StructBodyAt) IN
        IF \A j, k \in 1..Len(members) : members[j].name = members[k].name => j = k
        THEN /\ pstatus' = "running"
             /\ Last(statements').t = "Typedef"
             /\ Last(statements').old_type.members = members
        ELSE pstatus' \notin {"running", "done"}

\* C12: a struct typedef whose members TYPE NAME ; have known types and
\* pairwise distinct names is parsed and keeps its members in declaration
\* order; one with a repeated member name ends in an error.
C12_StructMembers == [][StructTypedef]_vars

\* the tokens from index i are prototypes up to } ;
RECURSIVE GrammarPrototypes(_, _)
GrammarPrototypes(ts, i) ==
    IF i + 1 <= Len(ts) /\ ts[i].type = "RIGHT_BRACE" THEN ts[i + 1].type = "SEMICOLON"
    ELSE /\ i + 8 <= Len(ts)
         /\ ts[i + 1].type = "IDENTIFIER"
         /\ SubSeq(ts, i, i + 7) = Prototype(ts[i + 1].value)
         /\ GrammarPrototypes(ts, i + 8)

RECURSIVE PrototypesFrom(_, _)
PrototypesFrom(ts, i) ==
    IF ts[i].type = "RIGHT_BRACE" THEN {}
    ELSE {ts[i + 1].value} \cup PrototypesFrom(ts, i + 8)

HeaderBlock ==
    (AtItem /\ Check(tokens, ParserState, "HEADER")
        /\ PeekIs(tokens, ParserState, 1, "LEFT_BRACE")
        /\ GrammarPrototypes(tokens, current + 3)
        /\ \A n \in PrototypesFrom(tokens, current + 3) : ~Contains(existing_functions, n)) =>
        /\ pstatus' = "running"
        /\ Last(statements').t = "Header"
        /\ \A n \in PrototypesFrom(tokens, current + 3) : Contains(existing_functions', n)

\* C13: a block header { prototypes } ; is parsed into a Header node and
\* the name of each of its prototypes is registered as a declared function.
C13_HeaderBlock == [][HeaderBlock]_vars

(***************************************************************************)
(* The preprocessor (preprocessor.cpp).  A std::string is the sequence of  *)
(* its characters, a text the sequence of its lines (std::getline), a      *)
(* position counts from 0 as in C++.                                       *)
(***************************************************************************)
\* most lines of the file given to preprocess
MaxLines == 3

\* std::string::npos, as read by the comparisons of handleInclude and handleDefine
npos == -1

\* std::isalnum(c) || c == '_': the characters \b takes for word characters
WordChars ==
    {"a", "b", "c", "d", "e", "f", "g", "h", "i", "j", "k", "l", "m", "n",
     "o", "p", "q", "r", "s", "t", "u", "v", "w", "x", "y", "z", "A", "B",
     "C", "D", "E", "F", "G", "H", "I", "J", "K", "L", "M", "N", "O", "P",
     "Q", "R", "S", "T", "U", "V", "W", "X", "Y", "Z", "0", "1", "2", "3",
     "4", "5", "6", "7", "8", "9", "_"}

Whitespace == {" ", "\t"}

At(line, pos) == line[pos + 1]

\* line.find(prefix) == 0
StartsWith(line, prefix) ==
    Len(line) >= Len(prefix) /\ SubSeq(line, 1, Len(prefix)) = prefix

\* line.find_first_of(chars, pos)
FindFirstOf(line, chars, pos) ==
    LET S == {i \in 0..(Len(line) - 1) : i >= pos /\ At(line, i) \in chars}
    IN IF pos = npos \/ S = {} THEN npos ELSE CHOOSE i \in S : \A j \in S : i <= j

\* line.find_first_not_of(chars, pos)
FindFirstNotOf(line, chars, pos) ==
    LET S == {i \in 0..(Len(line) - 1) : i >= pos /\ At(line, i) \notin chars}
    IN IF pos = npos \/ S = {} THEN npos ELSE CHOOSE i \in S : \A j \in S : i <= j

\* line.find_last_of(chars)
FindLastOf(line, chars) ==
    LET S == {i \in 0..(Len(line) - 1) : At(line, i) \in chars}
    IN IF S = {} THEN npos ELSE CHOOSE i \in S : \A j \in S : j <= i

\* line.substr(pos, count) and line.substr(pos)
Substr(line, pos, count) == SubSeq(line, pos + 1, IF pos + count > Len(line) THEN Len(line) ELSE pos + count)

SubstrFrom(line, pos) == SubSeq(line, pos + 1, Len(line))

\* handleDefine: the macro table after the directive
HandleDefineMacros(table, line) ==
    LET first == FindFirstNotOf(line, Whitespace, 7)
        end == FindFirstOf(line, Whitespace, first)
    IN IF first = npos \/ end = npos THEN table
       ELSE [key \in DOMAIN table \cup {Substr(line, first, end - first)} |->
                IF key = Substr(line, first, end - first) THEN SubstrFrom(line, end + 1)
                ELSE table[key]]

\* handleUndef: the macro table after the directive
HandleUndefMacros(table, line) ==
    LET first == FindFirstNotOf(line, Whitespace, 6)
    IN IF first = npos THEN table
       ELSE [key \in DOMAIN table \ {SubstrFrom(line, first)} |-> table[key]]

\* \b at position pos: exactly one of the characters around it is a word character
WordBoundary(line, pos) ==
    (pos > 0 /\ At(line, pos - 1) \in WordChars)
        # (pos < Len(line) /\ At(line, pos) \in WordChars)

\* std::regex_replace(line, std::regex("\\b" + key + "\\b"), value) for a
\* key of word characters: every match from left to right, from position pos
RECURSIVE RegexReplace(_, _, _, _)
RegexReplace(line, key, value, pos) ==
    IF pos >= Len(line) THEN <<>>
    ELSE IF /\ key # <<>>
            /\ pos + Len(key) <= Len(line)
            /\ Substr(line, pos, Len(key)) = key
            /\ WordBoundary(line, pos)
            /\ WordBoundary(line, pos + Len(key))
    THEN value \o RegexReplace(line, key, value, pos + Len(key))
    ELSE <<At(line, pos)>> \o RegexReplace(line, key, value, pos + 1)

\* replaceMacros: the loop runs over an unordered_map, whose order of
\* iteration is unspecified; the set holds the result of every order
RECURSIVE ReplaceMacros(_, _, _)
ReplaceMacros(table, keys, line) ==
    IF keys = {} THEN {line}
    ELSE UNION {ReplaceMacros(table, keys \ {key}, RegexReplace(line, key, table[key], 0)) :
                    key \in keys}

\* a relative path names a file under the current working directory
Absolute(path) ==
    IF path # <<>> /\ path[1] = "/" THEN path ELSE cwd \o <<"/">> \o path

\* readFile: the lines of the file, none when it cannot be opened
ReadFile(path) == IF Absolute(path) \in DOMAIN files THEN files[Absolute(path)] ELSE <<>>

\* fs::exists
Exists(path) == Absolute(path) \in DOMAIN files

\* the first of the includePaths from index i on under which includeName exists, <<>> if none
RECURSIVE FirstRoot(_, _)
FirstRoot(includeName, i) ==
    IF i > Len(includePaths) THEN <<>>
    ELSE IF Exists(includePaths[i] \o <<"/">> \o includeName)
    THEN includePaths[i] \o <<"/">> \o includeName
    ELSE FirstRoot(includeName, i + 1)

\* resolveIncludePath
ResolveIncludePath(includeName, currentDir) ==
    IF includeName # <<>> /\ includeName[1] = "\"" /\ Exists(currentDir \o <<"/">> \o includeName)
    THEN currentDir \o <<"/">> \o includeName
    ELSE IF includeName # <<>> /\ includeName[1] = "<" /\ FirstRoot(includeName, 1) # <<>>
    THEN FirstRoot(includeName, 1)
    ELSE includeName

\* handleInclude, lines 75-89: the lines of the first header block
RECURSIVE HeaderContent(_, _)
HeaderContent(fileLines, inHeaderBlock) ==
    IF fileLines = <<>> THEN <<>>
    ELSE IF StartsWith(Head(fileLines), <<"h", "e", "a", "d", "e", "r">>)
    THEN <<Head(fileLines)>> \o HeaderContent(Tail(fileLines), TRUE)
    ELSE IF inHeaderBlock /\ StartsWith(Head(fileLines), <<"}", ";">>)
    THEN <<Head(fileLines)>>
    ELSE IF inHeaderBlock
    THEN <<Head(fileLines)>> \o HeaderContent(Tail(fileLines), TRUE)
    ELSE HeaderContent(Tail(fileLines), FALSE)

\* handleInclude, lines 91-101: every pair of macro table and output that
\* the lines of the header block can leave
RECURSIVE IncludeHeader(_, _, _)
IncludeHeader(headerLines, table, out) ==
    IF headerLines = <<>> THEN {[macros |-> table, output |-> out]}
    ELSE IF StartsWith(Head(headerLines), <<"#", "d", "e", "f", "i", "n", "e">>)
    THEN IncludeHeader(Tail(headerLines), HandleDefineMacros(table, Head(headerLines)), out)
    ELSE IF StartsWith(Head(headerLines), <<"#", "u", "n", "d", "e", "f">>)
    THEN IncludeHeader(Tail(headerLines), HandleUndefMacros(table, Head(headerLines)), out)
    ELSE UNION {IncludeHeader(Tail(headerLines), table, Append(out, replaced)) :
                    replaced \in ReplaceMacros(table, DOMAIN table, Head(headerLines))}

\* handleInclude, lines 55-68: the lines of the included file, <<>> for `return false`
IncludedFile(line, currentDir) ==
    LET first == FindFirstOf(line, {"\"", "<"}, 0) + 1
        end == FindLastOf(line, {"\"", ">"})
    IN IF end = npos \/ first >= end THEN <<>>
       ELSE ReadFile(ResolveIncludePath(Substr(line, first, end - first), currentDir))

\* fs::path(path).parent_path().string()
ParentPath(path) ==
    IF FindLastOf(path, {"/"}) = npos THEN <<>> ELSE Substr(path, 0, FindLastOf(path, {"/"}))

PreprocessLoop == ppstatus = "running" /\ stream # <<>>

line == Head(stream)

\* which branch of the loop of preprocess a line takes
Branch(l) ==
    IF l = <<>> THEN "empty"
    ELSE IF StartsWith(l, <<"#", "i", "n", "c", "l", "u", "d", "e">>) THEN "include"
    ELSE IF StartsWith(l, <<"#", "d", "e", "f", "i", "n", "e">>) THEN "define"
    ELSE IF StartsWith(l, <<"#", "u", "n", "d", "e", "f">>) THEN "undef"
    ELSE IF StartsWith(l, <<"h", "e", "a", "d", "e", "r">>) THEN "header"
    ELSE "text"

\* preprocess, lines 17-25
Preprocess ==
    /\ ppstatus = "constructed"
    /\ stream' = ReadFile(filename)
    /\ ppstatus' = IF ReadFile(filename) = <<>> THEN "nullopt" ELSE "running"
    /\ UNCHANGED <<files, cwd, includePaths, macros, output, filename>>
    /\ UNCHANGED <<genVars, parseVars, lexVars, cpuVars, asmCall>>

SkipEmptyLine ==
    /\ PreprocessLoop /\ Branch(line) = "empty"
    /\ stream' = Tail(stream)
    /\ UNCHANGED <<files, cwd, includePaths, macros, output, ppstatus, filename>>
    /\ UNCHANGED <<genVars, parseVars, lexVars, cpuVars, asmCall>>

HandleInclude ==
    /\ PreprocessLoop /\ Branch(line) = "include"
    /\ LET included == IncludedFile(line, ParentPath(filename)) IN
        IF included = <<>>
        THEN /\ ppstatus' = "fatal"
             /\ UNCHANGED <<macros, output, stream>>
        ELSE /\ \E r \in IncludeHeader(HeaderContent(included, FALSE), macros, output) :
                    macros' = r.macros /\ output' = r.output
             /\ stream' = Tail(stream)
             /\ UNCHANGED ppstatus
    /\ UNCHANGED <<files, cwd, includePaths, filename>>
    /\ UNCHANGED <<genVars, parseVars, lexVars, cpuVars, asmCall>>

HandleDefine ==
    /\ PreprocessLoop /\ Branch(line) = "define"
    /\ macros' = HandleDefineMacros(macros, line)
    /\ output' = Append(output, <<>>)
    /\ stream' = Tail(stream)
    /\ UNCHANGED <<files, cwd, includePaths, ppstatus, filename>>
    /\ UNCHANGED <<genVars, parseVars, lexVars, cpuVars, asmCall>>

HandleUndef ==
    /\ PreprocessLoop /\ Branch(line) = "undef"
    /\ macros' = HandleUndefMacros(macros, line)
    /\ output' = Append(output, <<>>)
    /\ stream' = Tail(stream)
    /\ UNCHANGED <<files, cwd, includePaths, ppstatus, filename>>
    /\ UNCHANGED <<genVars, parseVars, lexVars, cpuVars, asmCall>>

HandleHeader ==
    /\ PreprocessLoop /\ Branch(line) = "header"
    /\ output' = Append(output, line)
    /\ stream' = Tail(stream)
    /\ UNCHANGED <<files, cwd, includePaths, macros, ppstatus, filename>>
    /\ UNCHANGED <<genVars, parseVars, lexVars, cpuVars, asmCall>>

ReplaceMacrosLine ==
    /\ PreprocessLoop /\ Branch(line) = "text"
    /\ \E replaced \in ReplaceMacros(macros, DOMAIN macros, line) :
            output' = Append(output, replaced)
    /\ stream' = Tail(stream)
    /\ UNCHANGED <<files, cwd, includePaths, macros, ppstatus, filename>>
    /\ UNCHANGED <<genVars, parseVars, lexVars, cpuVars, asmCall>>

\* preprocess, line 51
PreprocessReturn ==
    /\ ppstatus = "running" /\ stream = <<>>
    /\ ppstatus' = "returned"
    /\ UNCHANGED <<files, cwd, includePaths, macros, stream, output, filename>>
    /\ UNCHANGED <<genVars, parseVars, lexVars, cpuVars, asmCall>>

\* the file named on the command line and the file the output is written to
MainFile == <<"/", "s", "/", "m">>
OutputFile == <<"/", "s", "/", "o">>

\* the returned text is written to a file and a new Preprocessor is run on it
PreprocessOutput ==
    /\ ppstatus = "returned" /\ filename = MainFile
    /\ files' = [path \in DOMAIN files \cup {OutputFile} |->
                    IF path = OutputFile THEN output ELSE files[path]]
    /\ filename' = OutputFile
    /\ macros' = EmptyMap
    /\ stream' = <<>>
    /\ output' = <<>>
    /\ ppstatus' = "constructed"
    /\ UNCHANGED <<cwd, includePaths>>
    /\ UNCHANGED <<genVars, parseVars, lexVars, cpuVars, asmCall>>

\* the lines a source file is made of
IncludeQuoted == <<"#", "i", "n", "c", "l", "u", "d", "e", " ", "\"", "a", "\"">>
IncludeAngled == <<"#", "i", "n", "c", "l", "u", "d", "e", " ", "<", "a", ">">>

SourceLines ==
    {<<"#", "d", "e", "f", "i", "n", "e", " ", "N", " ", "4", "2">>,
     <<"#", "u", "n", "d", "e", "f", " ", "N">>,
     <<"N", " ", "N", "N", " ", "M">>,
     <<"h", "e", "a", "d", "e", "r", " ", "N">>,
     <<" ", "#", "d", "e", "f", "i", "n", "e", " ", "N", " ", "4", "2">>,
     <<"#", "d", "e", "f", "i", "n", "e", " ", "M", " ", "N">>,
     <<>>, IncludeQuoted, IncludeAngled}

RECURSIVE LineSequences(_)
LineSequences(n) ==
    IF n = 0 THEN {<<>>}
    ELSE LET shorter == LineSequences(n - 1)
         IN shorter \cup {Append(s, l) : s \in shorter, l \in SourceLines}

\* the file `a` of directory dir: a header block between two other lines
Library(dir) ==
    <<<<"y", ";">>, <<"h", "e", "a", "d", "e", "r", " ", "{">>, Tail(dir) \o <<";">>, <<"}", ";">>, <<"z", ";">>>>

Directories == {<<"/", "s">>, <<"/", "w">>, <<"/", "i">>, <<"/", "j">>}

\* the directories that hold a file `a`
Placements ==
    {{}, {<<"/", "s">>}, {<<"/", "w">>}, {<<"/", "j">>}, {<<"/", "i">>, <<"/", "j">>}, Directories}

FileSystem(main, dirs) ==
    [path \in {MainFile} \cup {d \o <<"/", "a">> : d \in dirs} |->
        IF path = MainFile THEN main ELSE Library(ParentPath(path))]

InitPre ==
    /\ \E main \in LineSequences(MaxLines), dirs \in Placements :
            files = FileSystem(main, dirs)
    /\ cwd \in {<<"/", "s">>, <<"/", "w">>}
    /\ includePaths = <<<<"/", "i">>, <<"/", "j">>>>
    /\ macros = EmptyMap
    /\ stream = <<>>
    /\ output = <<>>
    /\ ppstatus = "constructed"
    /\ filename = MainFile
    /\ program = <<>>
    /\ typedefs = EmptyMap
    /\ structDefinitions = EmptyMap
    /\ generatedCode = <<>>
    /\ localVarStack = <<>>
    /\ localVarOffset = 0
    /\ totalLocalVarOffset = 0
    /\ labelCounter = 0
    /\ currentArgOffset = 0
    /\ currentFunctionName = ""
    /\ loopContextStack = <<>>
    /\ frames = <<>>
    /\ blockTrace = <<>>
    /\ status = "idle"
    /\ tokens = <<>>
    /\ current = 0
    /\ existing_types = <<>>
    /\ existing_functions = <<>>
    /\ existing_variables = <<>>
    /\ statements = <<>>
    /\ pstatus = "idle"
    /\ source = <<>>
    /\ start = 0
    /\ lstatus = "idle"
    /\ expr = NullNode
    /\ cpu = PoweredOff
    /\ asmCall = NotCalled

NextPre ==
    \/ Preprocess
    \/ SkipEmptyLine
    \/ HandleInclude
    \/ HandleDefine
    \/ HandleUndef
    \/ HandleHeader
    \/ ReplaceMacrosLine
    \/ PreprocessReturn
    \/ PreprocessOutput

SpecPre == InitPre /\ [][NextPre]_vars

\* a line without its leading whitespace
TrimLeft(l) ==
    IF FindFirstNotOf(l, Whitespace, 0) = npos THEN <<>>
    ELSE SubstrFrom(l, FindFirstNotOf(l, Whitespace, 0))

\* the lines of the file that preprocess has read
LinesRead == SubSeq(files[filename], 1, Len(files[filename]) - Len(stream))

\* the macros in force after the directives of some lines, a directive
\* being the first token of its line that is not whitespace
RECURSIVE MacrosAfter(_, _)
MacrosAfter(lines, table) ==
    IF lines = <<>> THEN table
    ELSE IF StartsWith(TrimLeft(Head(lines)), <<"#", "d", "e", "f", "i", "n", "e">>)
    THEN MacrosAfter(Tail(lines), HandleDefineMacros(table, TrimLeft(Head(lines))))
    ELSE IF StartsWith(TrimLeft(Head(lines)), <<"#", "u", "n", "d", "e", "f">>)
    THEN MacrosAfter(Tail(lines), HandleUndefMacros(table, TrimLeft(Head(lines))))
    ELSE MacrosAfter(Tail(lines), table)

MacroOrder ==
    (PreprocessLoop /\ filename = MainFile
        /\ TrimLeft(line) # <<>> /\ ~StartsWith(TrimLeft(line), <<"#">>)
        /\ Cardinality(DOMAIN MacrosAfter(LinesRead, EmptyMap)) <= 1) =>
        LET inForce == MacrosAfter(LinesRead, EmptyMap) IN
        output' = Append(output,
                         IF DOMAIN inForce = {} THEN line
                         ELSE LET NAME == CHOOSE key \in DOMAIN inForce : TRUE
                              IN RegexReplace(line, NAME, inForce[NAME], 0))

\* C17: a line that is no directive is written with every whole-word
\* occurrence of NAME replaced by VALUE when a #define of NAME came before
\* it with no #undef of NAME in between, and written as it is otherwise.
C17_MacroOrder == [][MacroOrder]_vars

NoDirectiveLeft ==
    ppstatus = "returned" =>
        \A i \in 1..Len(output) : ~StartsWith(TrimLeft(output[i]), <<"#">>)

Idempotent ==
    (ppstatus = "returned" /\ filename = OutputFile) => output = files[OutputFile]

\* C18: the text preprocess returns has no line that starts with a
\* directive, and preprocessing that text returns it unchanged.
C18_PreprocessTwice == NoDirectiveLeft /\ Idempotent

\* the file the spec has an include line read: under the directory of the
\* including file for "a", under the first include root that has it for <a>
IncludeTarget ==
    LET searched == IF line = IncludeQuoted THEN <<ParentPath(filename)>> ELSE includePaths
        found == {i \in 1..Len(searched) : (searched[i] \o <<"/", "a">>) \in DOMAIN files}
    IN IF found = {} THEN <<>>
       ELSE searched[CHOOSE i \in found : \A j \in found : i <= j] \o <<"/", "a">>

IncludeResolution ==
    (PreprocessLoop /\ line \in {IncludeQuoted, IncludeAngled}) =>
        IF IncludeTarget = <<>> THEN ppstatus' = "fatal"
        ELSE /\ ppstatus' = "running"
             /\ output' = output \o HeaderContent(files[IncludeTarget], FALSE)

\* C19: an include line reads the file under the directory of the
\* including file (quoted form) or under the first include root that has it
\* (angled form), whatever the current working directory is.
C19_IncludeResolution == [][IncludeResolution]_vars

(***************************************************************************)
(* The lexer.  Lexer::source is the sequence of its characters; start and  *)
(* current count from 0.  line and column are read only by the text of a   *)
(* diagnostic and by the position stored in a token, and are left out.     *)
(***************************************************************************)
\* most characters of a source text
MaxSource == 4

\* the character '\0'
NUL == "NUL"

keywords ==
    <<"f", "u", "n", "c", "t", "i", "o", "n">> :> "FUNCTION" @@
    <<"r", "e", "t", "u", "r", "n">> :> "RETURN" @@
    <<"v", "o", "i", "d">> :> "VOID" @@
    <<"t", "y", "p", "e", "d", "e", "f">> :> "TYPEDEF" @@
    <<"s", "t", "r", "u", "c", "t">> :> "STRUCT" @@
    <<"i", "f">> :> "IF" @@
    <<"e", "l", "s", "e">> :> "ELSE" @@
    <<"w", "h", "i", "l", "e">> :> "WHILE" @@
    <<"s", "w", "i", "t", "c", "h">> :> "SWITCH" @@
    <<"c", "a", "s", "e">> :> "CASE" @@
    <<"d", "e", "f", "a", "u", "l", "t">> :> "DEFAULT" @@
    <<"b", "r", "e", "a", "k">> :> "BREAK" @@
    <<"c", "o", "n", "t", "i", "n", "u", "e">> :> "CONTINUE" @@
    <<"h", "e", "a", "d", "e", "r">> :> "HEADER" @@
    <<"i", "n", "t", "8">> :> "INT8" @@
    <<"i", "n", "t", "1", "6">> :> "INT16" @@
    <<"i", "n", "t", "3", "2">> :> "INT32" @@
    <<"i", "n", "t", "6", "4">> :> "INT64" @@
    <<"u", "i", "n", "t", "8">> :> "UINT8" @@
    <<"u", "i", "n", "t", "1", "6">> :> "UINT16" @@
    <<"u", "i", "n", "t", "3", "2">> :> "UINT32" @@
    <<"u", "i", "n", "t", "6", "4">> :> "UINT64" @@
    <<"f", "l", "o", "a", "t">> :> "FLOAT" @@
    <<"c", "h", "a", "r">> :> "CHAR" @@
    <<"b", "o", "o", "l">> :> "BOOL" @@
    <<"a", "s", "m">> :> "INLINE_ASM"

Digits == {"0", "1", "2", "3", "4", "5", "6", "7", "8", "9"}

Letters == WordChars \ (Digits \cup {"_"})

\* the cases of the switch of tokenize that add one token for one character
SingleCharTokens ==
    "(" :> "LEFT_PAREN" @@ ")" :> "RIGHT_PAREN" @@ "{" :> "LEFT_BRACE" @@
    "}" :> "RIGHT_BRACE" @@ "[" :> "LEFT_BRACKET" @@ "]" :> "RIGHT_BRACKET" @@
    ";" :> "SEMICOLON" @@ "," :> "COMMA" @@ "+" :> "PLUS" @@ "-" :> "MINUS" @@
    "*" :> "STAR" @@ "%" :> "PERCENT" @@ "&" :> "AMPERSAND" @@ "|" :> "PIPE"

\* the cases that look at the next character with match('=')
TwoCharTokens ==
    "=" :> <<"EQUAL", "ASSIGN">> @@ "!" :> <<"NOT_EQUAL", "EXCLAMATION">> @@
    "<" :> <<"LESS_EQUAL", "LESS">> @@ ">" :> <<"GREATER_EQUAL", "GREATER">>

\* peek and peekNext with the value c of current
peek(c) == IF c < Len(source) THEN source[c + 1] ELSE NUL

peekNext(c) == IF c + 1 < Len(source) THEN source[c + 2] ELSE NUL

\* while (peek() is in chars) advance();  no set of characters holds NUL
RECURSIVE AdvanceWhile(_, _)
AdvanceWhile(c, chars) == IF peek(c) \in chars THEN AdvanceWhile(c + 1, chars) ELSE c

\* while (peek() != stop && current < source.length()) advance();
RECURSIVE AdvanceUntil(_, _)
AdvanceUntil(c, stop) ==
    IF peek(c) # stop /\ c < Len(source) THEN AdvanceUntil(c + 1, stop) ELSE c

SkipWhitespace(c) == AdvanceWhile(c, {" ", "\r", "\t", "\n"})

SkipLineComment(c) == AdvanceUntil(c, "\n")

RECURSIVE BlockCommentEnd(_)
BlockCommentEnd(c) ==
    IF peek(c) # NUL /\ ~(peek(c) = "*" /\ peekNext(c) = "/") THEN BlockCommentEnd(c + 1) ELSE c

\* current after skipBlockComment: an error is printed at the end of the
\* source, two characters are consumed otherwise
SkipBlockComment(c) ==
    IF BlockCommentEnd(c) >= Len(source) THEN BlockCommentEnd(c) ELSE BlockCommentEnd(c) + 2

\* current after handleNumber
NumberEnd(c) ==
    LET whole == AdvanceWhile(c, Digits)
    IN IF peek(whole) = "." /\ peekNext(whole) \in Digits
       THEN AdvanceWhile(whole + 1, Digits) ELSE whole

\* the body of the loop of tokenize runs
Tokenizing == lstatus = "running" /\ current < Len(source)

\* current after skipWhitespace, which is the start of the next token
scanned == SkipWhitespace(current)

\* char c = advance();
c == source[scanned + 1]

AddToken(type, value) == tokens' = Append(tokens, Token(type, value))

LexerUnchanged == UNCHANGED <<source, lstatus, existing_types, existing_functions, existing_variables, statements, pstatus, genVars, preVars, cpuVars, asmCall>>

\* tokenize, line 47: only whitespace was left
ScanBreak ==
    /\ Tokenizing /\ scanned >= Len(source)
    /\ start' = scanned
    /\ current' = scanned
    /\ UNCHANGED tokens
    /\ LexerUnchanged

ScanSingleChar ==
    /\ Tokenizing /\ scanned < Len(source) /\ c \in DOMAIN SingleCharTokens
    /\ start' = scanned
    /\ current' = scanned + 1
    /\ AddToken(SingleCharTokens[c], <<>>)
    /\ LexerUnchanged

ScanTwoChar ==
    /\ Tokenizing /\ scanned < Len(source) /\ c \in DOMAIN TwoCharTokens
    /\ start' = scanned
    /\ IF peek(scanned + 1) = "="
       THEN current' = scanned + 2 /\ AddToken(TwoCharTokens[c][1], <<>>)
       ELSE current' = scanned + 1 /\ AddToken(TwoCharTokens[c][2], <<>>)
    /\ LexerUnchanged

HandleSlash ==
    /\ Tokenizing /\ scanned < Len(source) /\ c = "/"
    /\ start' = scanned
    /\ IF peek(scanned + 1) = "/"
       THEN current' = SkipLineComment(scanned + 2) /\ UNCHANGED tokens
       ELSE IF peek(scanned + 1) = "*"
       THEN current' = SkipBlockComment(scanned + 2) /\ UNCHANGED tokens
       ELSE current' = scanned + 1 /\ AddToken("SLASH", <<>>)
    /\ LexerUnchanged

HandleString ==
    /\ Tokenizing /\ scanned < Len(source) /\ c = "\""
    /\ start' = scanned
    /\ LET closing == AdvanceUntil(scanned + 1, "\"") IN
        IF closing >= Len(source)
        THEN current' = closing /\ UNCHANGED tokens
        ELSE /\ current' = closing + 1
             /\ AddToken("STRING", Substr(source, scanned + 1, closing + 1 - scanned - 2))
    /\ LexerUnchanged

HandleNumber ==
    /\ Tokenizing /\ scanned < Len(source) /\ c \in Digits
    /\ start' = scanned
    /\ current' = NumberEnd(scanned + 1)
    /\ AddToken("NUMBER", Substr(source, scanned, NumberEnd(scanned + 1) - scanned))
    /\ LexerUnchanged

HandleIdentifier ==
    /\ Tokenizing /\ scanned < Len(source) /\ c \in Letters \cup {"_"}
    /\ start' = scanned
    /\ current' = AdvanceWhile(scanned + 1, WordChars)
    /\ LET text == Substr(source, scanned, AdvanceWhile(scanned + 1, WordChars) - scanned)
       IN AddToken(IF text \in DOMAIN keywords THEN keywords[text] ELSE "IDENTIFIER", text)
    /\ LexerUnchanged

\* error("Unexpected character: ...") prints and returns
UnexpectedCharacter ==
    /\ Tokenizing /\ scanned < Len(source)
    /\ c \notin DOMAIN SingleCharTokens \cup DOMAIN TwoCharTokens \cup {"/", "\""} \cup WordChars
    /\ start' = scanned
    /\ current' = scanned + 1
    /\ UNCHANGED tokens
    /\ LexerUnchanged

\* a variant of TokenizeReturn that returns the tokens of the loop alone
TokenizeReturnMut ==
    /\ lstatus = "running" /\ current >= Len(source)
    /\ lstatus' = "returned"
    /\ UNCHANGED <<tokens, source, start, current>>
    /\ UNCHANGED <<existing_types, existing_functions, existing_variables, statements, pstatus, genVars, preVars, cpuVars, asmCall>>

\* tokenize, lines 91-92
TokenizeReturn ==
    /\ lstatus = "running" /\ current >= Len(source)
    /\ AddToken("EOF_TOKEN", <<>>)
    /\ lstatus' = "returned"
    /\ UNCHANGED <<source, start, current>>
    /\ UNCHANGED <<existing_types, existing_functions, existing_variables, statements, pstatus, genVars, preVars, cpuVars, asmCall>>

\* the characters a source text is made of
Alphabet == {"\n", "/", "*", "\"", "i", "f", "1", ".", "=", "@", NUL}

RECURSIVE Sources(_)
Sources(n) ==
    IF n = 0 THEN {<<>>}
    ELSE LET shorter == Sources(n - 1)
         IN shorter \cup {Append(s, ch) : s \in shorter, ch \in Alphabet}

InitLex ==
    /\ source \in Sources(MaxSource)
    /\ tokens = <<>>
    /\ start = 0
    /\ current = 0
    /\ lstatus = "running"
    /\ expr = NullNode
    /\ cpu = PoweredOff
    /\ asmCall = NotCalled
    /\ existing_types = <<>>
    /\ existing_functions = <<>>
    /\ existing_variables = <<>>
    /\ statements = <<>>
    /\ pstatus = "idle"
    /\ program = <<>>
    /\ typedefs = EmptyMap
    /\ structDefinitions = EmptyMap
    /\ generatedCode = <<>>
    /\ localVarStack = <<>>
    /\ localVarOffset = 0
    /\ totalLocalVarOffset = 0
    /\ labelCounter = 0
    /\ currentArgOffset = 0
    /\ currentFunctionName = ""
    /\ loopContextStack = <<>>
    /\ frames = <<>>
    /\ blockTrace = <<>>
    /\ status = "idle"
    /\ files = EmptyMap
    /\ cwd = <<>>
    /\ includePaths = <<>>
    /\ macros = EmptyMap
    /\ stream = <<>>
    /\ output = <<>>
    /\ ppstatus = "idle"
    /\ filename = <<>>

NextLex ==
    \/ ScanBreak
    \/ ScanSingleChar
    \/ ScanTwoChar
    \/ HandleSlash
    \/ HandleString
    \/ HandleNumber
    \/ HandleIdentifier
    \/ UnexpectedCharacter
    \/ TokenizeReturn

SpecLex == InitLex /\ [][NextLex]_vars

EofTokens == {i \in 1..Len(tokens) : tokens[i].type = "EOF_TOKEN"}

\* C20: the vector tokenize returns ends in a token of kind eof and holds
\* no other token of that kind, whatever the source text is.
C20_SingleEof ==
    lstatus = "returned" => (tokens # <<>> /\ EofTokens = {Len(tokens)})

\* tokenize has returned for a text in which it reported an unexpected
\* character and an unterminated block comment after an identifier
C20_Witness ==
    /\ lstatus = "returned"
    /\ source = <<"i", "@", "/", "*">>
    /\ Len(tokens) = 2

(***************************************************************************)
(* Programs with top-level items of every kind: Parser::parse returns all  *)
(* of them in ProgramNode::functions.                                      *)
(***************************************************************************)
\* visitGlobalVarDeclNode
VisitGlobalVarDeclNode(node) ==
    LET size == ResolveTypeSize(typedefs, structDefinitions,
                                ResolveTypeName(typedefs, node.type))
    IN IF node.initByAddr
       THEN <<Plain("section .bss"), Line("resb", node.name, "", size)>>
       ELSE <<Plain("section .data")>>
            \o (IF size = 1 THEN <<Line("db 0", node.name, "", 0)>>
                ELSE IF size = 2 THEN <<Line("dw 0", node.name, "", 0)>>
                ELSE IF size = 4 THEN <<Line("dd 0", node.name, "", 0)>>
                ELSE IF size = 8 THEN <<Line("dq 0", node.name, "", 0)>>
                ELSE <<>>)

TopLevelItems ==
    {GlobalVarDeclNode("int32", "counter"),
     [GlobalVarDeclNode("word", "buffer") EXCEPT !.initByAddr = TRUE],
     TypedefNode("T", TypeName("int32")),
     HeaderNode(<<>>),
     FunctionNode("main", "int32", <<>>, BlockNode(<<ReturnNode(Lit0)>>))}

\* most items of such a program
MaxTopLevel == 3

RECURSIVE TopLevelPrograms(_)
TopLevelPrograms(n) ==
    IF n = 0 THEN {<<>>}
    ELSE LET shorter == TopLevelPrograms(n - 1)
         IN shorter \cup {Append(p, item) : p \in shorter, item \in TopLevelItems}

InitProgram ==
    /\ program \in TopLevelPrograms(MaxTopLevel)
    /\ typedefs = ("word" :> "int64")
    /\ structDefinitions = [x \in {} |-> <<>>]
    /\ generatedCode = <<>>
    /\ localVarStack = <<>>
    /\ localVarOffset = 0
    /\ totalLocalVarOffset = 0
    /\ labelCounter = 0
    /\ currentArgOffset = 0
    /\ currentFunctionName = ""
    /\ loopContextStack = <<>>
    /\ frames = <<[k |-> "program", i |-> 1]>>
    /\ blockTrace = <<>>
    /\ status = "running"
    /\ tokens = <<>>
    /\ current = 0
    /\ existing_types = <<>>
    /\ existing_functions = <<>>
    /\ existing_variables = <<>>
    /\ statements = <<>>
    /\ pstatus = "idle"
    /\ files = EmptyMap
    /\ cwd = <<>>
    /\ includePaths = <<>>
    /\ macros = EmptyMap
    /\ stream = <<>>
    /\ output = <<>>
    /\ ppstatus = "idle"
    /\ filename = <<>>
    /\ source = <<>>
    /\ start = 0
    /\ lstatus = "idle"
    /\ expr = NullNode
    /\ cpu = PoweredOff
    /\ asmCall = NotCalled

NextProgram ==
    \/ VisitFunctionNode
    \/ VisitNonFunctionNode
    \/ ExitFunction
    \/ VisitProgramNodeDone
    \/ VisitBlockNode
    \/ VisitBlockNodeExit
    \/ VisitReturnNode

SpecProgram == InitProgram /\ [][NextProgram]_vars

TopLevelItemGenerated ==
    (Running /\ top.k = "program" /\ top.i <= Len(program)) =>
        LET item == program[top.i] IN
        /\ item.t = "GlobalVarDecl" =>
              /\ status' = "running"
              /\ Appended = VisitGlobalVarDeclNode(item)
              /\ Len(Appended) = 2
        /\ item.t \in {"Typedef", "Header"} =>
              /\ status' = "running"
              /\ Appended = <<>>

\* C26: the step of visitProgramNode at a GlobalVarDecl appends the
\* section line and the one definition line of its name (`NAME resb size`
\* under .bss when initByAddr, `NAME db|dw|dd|dq 0` under .data otherwise),
\* and the step at a Typedef or a Header appends nothing: no item that is not
\* a function gets the lines of a function.
C26_TopLevelItems == [][TopLevelItemGenerated]_vars

(***************************************************************************)
(* The lines visitExpressionNode emits for a binary operation, run on the  *)
(* processor.  Registers hold signed values; with operands up to MaxValue  *)
(* no result leaves the 64-bit range.                                      *)
(***************************************************************************)
\* largest operand value
MaxValue == 3

\* the text of a literal and the value `mov rax, <text>` loads
Decimal == <<"0", "1", "2", "3", "4">>
ValueOf(text) == (CHOOSE i \in 1..Len(Decimal) : Decimal[i] = text) - 1

ComparedOps == {"-", "/", "<", "<=", ">", ">="}

\* what a register may hold before the first emitted line runs
Uninitialised == {0, 7}

\* the generator after construction with nothing emitted; no other component runs
GeneratorConstructed ==
    /\ cpu = PoweredOff
    /\ asmCall = NotCalled
    /\ program = <<>>
    /\ typedefs = EmptyMap
    /\ structDefinitions = EmptyMap
    /\ generatedCode = <<>>
    /\ localVarStack = <<>>
    /\ localVarOffset = 0
    /\ totalLocalVarOffset = 0
    /\ labelCounter = 0
    /\ currentArgOffset = 0
    /\ currentFunctionName = ""
    /\ loopContextStack = <<>>
    /\ frames = <<>>
    /\ blockTrace = <<>>
    /\ status = "running"
    /\ tokens = <<>>
    /\ current = 0
    /\ existing_types = <<>>
    /\ existing_functions = <<>>
    /\ existing_variables = <<>>
    /\ statements = <<>>
    /\ pstatus = "idle"
    /\ files = EmptyMap
    /\ cwd = <<>>
    /\ includePaths = <<>>
    /\ macros = EmptyMap
    /\ stream = <<>>
    /\ output = <<>>
    /\ ppstatus = "idle"
    /\ filename = <<>>
    /\ source = <<>>
    /\ start = 0
    /\ lstatus = "idle"

InitEval ==
    /\ \E l, r \in 0..MaxValue : \E op \in ComparedOps :
           expr = ExpressionNode(LiteralNode(Decimal[l + 1]), op, LiteralNode(Decimal[r + 1]))
    /\ GeneratorConstructed

EvalUnchanged ==
    UNCHANGED <<program, typedefs, structDefinitions, localVarStack, localVarOffset,
                totalLocalVarOffset, labelCounter, currentArgOffset, currentFunctionName,
                loopContextStack, frames, blockTrace, status, parseVars, preVars,
                lexVars, expr, asmCall>>

\* visitExpressionNode(expr): the lines are emitted, the processor starts at the first
VisitExpression ==
    /\ cpu.state = "off"
    /\ expr.t = "Expression"
    /\ generatedCode' = generatedCode \o VisitExpressionNode(expr)
    /\ \E a, b, d \in Uninitialised :
           cpu' = [PoweredOff EXCEPT !.state = "running", !.pc = 1, !.rax = a,
                                     !.rbx = b, !.rdx = d]
    /\ EvalUnchanged

Fetching == cpu.state = "running" /\ cpu.pc <= Len(generatedCode)
instruction == generatedCode[cpu.pc]
Step(next) == cpu' = [next EXCEPT !.pc = cpu.pc + 1]

\* `mov rax, <literal>` (visitLiteralNode)
ExecuteMov ==
    /\ Fetching /\ instruction.op = "mov rax,"
    /\ Step([cpu EXCEPT !.rax = ValueOf(instruction.b)])
    /\ UNCHANGED generatedCode /\ EvalUnchanged

\* `push rax`
ExecutePush ==
    /\ Fetching /\ instruction = PushRax
    /\ Step([cpu EXCEPT !.stack = Append(cpu.stack, cpu.rax)])
    /\ UNCHANGED generatedCode /\ EvalUnchanged

\* `pop rbx`
ExecutePop ==
    /\ Fetching /\ instruction = PopRbx
    /\ cpu.stack # <<>>
    /\ Step([cpu EXCEPT !.rbx = Last(cpu.stack), !.stack = PopBack(cpu.stack)])
    /\ UNCHANGED generatedCode /\ EvalUnchanged

\* `sub rax, rbx`: rax := rax - rbx
ExecuteSub ==
    /\ Fetching /\ instruction = Plain("sub rax, rbx")
    /\ Step([cpu EXCEPT !.rax = cpu.rax - cpu.rbx])
    /\ UNCHANGED generatedCode /\ EvalUnchanged

\* `xor rdx, rdx`
ExecuteXor ==
    /\ Fetching /\ instruction = Plain("xor rdx, rdx")
    /\ Step([cpu EXCEPT !.rdx = 0])
    /\ UNCHANGED generatedCode /\ EvalUnchanged

\* the quotient of signed division, rounded towards zero
Quotient(a, b) ==
    IF (a < 0) = (b < 0) THEN Abs(a) \div Abs(b) ELSE -(Abs(a) \div Abs(b))

\* `idiv rbx`: rdx:rax is divided by rbx, the quotient goes to rax and the
\* remainder to rdx.  A zero divisor raises the divide error, and so does a
\* quotient that does not fit rax: with rdx # 0 and a divisor of this size
\* it never fits.
ExecuteIdiv ==
    /\ Fetching /\ instruction = Plain("idiv rbx")
    /\ IF cpu.rbx = 0 \/ cpu.rdx # 0
       THEN cpu' = [cpu EXCEPT !.state = "fault"]
       ELSE LET q == Quotient(cpu.rax, cpu.rbx)
            IN Step([cpu EXCEPT !.rax = q, !.rdx = cpu.rax - q * cpu.rbx])
    /\ UNCHANGED generatedCode /\ EvalUnchanged

\* `cmp rax, rbx`: the flags of rax - rbx, kept as its sign
ExecuteCmp ==
    /\ Fetching /\ instruction = Plain("cmp rax, rbx")
    /\ Step([cpu EXCEPT !.flags = IF cpu.rax < cpu.rbx THEN -1
                                  ELSE IF cpu.rax = cpu.rbx THEN 0 ELSE 1])
    /\ UNCHANGED generatedCode /\ EvalUnchanged

SetConditions == ("setl al" :> {-1}) @@ ("setle al" :> {-1, 0})
                 @@ ("setg al" :> {1}) @@ ("setge al" :> {0, 1})

\* `setl|setle|setg|setge al`: the low byte of rax becomes 1 or 0
ExecuteSet ==
    /\ Fetching /\ instruction.op \in DOMAIN SetConditions
    /\ LET al == IF cpu.flags \in SetConditions[instruction.op] THEN 1 ELSE 0
       IN Step([cpu EXCEPT !.rax = cpu.rax - (cpu.rax % 256) + al])
    /\ UNCHANGED generatedCode /\ EvalUnchanged

\* `movzx rax, al`
ExecuteMovzx ==
    /\ Fetching /\ instruction = Plain("movzx rax, al")
    /\ Step([cpu EXCEPT !.rax = cpu.rax % 256])
    /\ UNCHANGED generatedCode /\ EvalUnchanged

NextEval ==
    \/ VisitExpression
    \/ ExecuteMov
    \/ ExecutePush
    \/ ExecutePop
    \/ ExecuteSub
    \/ ExecuteXor
    \/ ExecuteIdiv
    \/ ExecuteCmp
    \/ ExecuteSet
    \/ ExecuteMovzx

SpecEval == InitEval /\ [][NextEval]_vars

\* the value of `l op r` in the source language
Apply(op, l, r) ==
    IF op = "-" THEN l - r
    ELSE IF op = "/" THEN Quotient(l, r)
    ELSE IF op = "<" THEN (IF l < r THEN 1 ELSE 0)
    ELSE IF op = "<=" THEN (IF l <= r THEN 1 ELSE 0)
    ELSE IF op = ">" THEN (IF l > r THEN 1 ELSE 0)
    ELSE (IF l >= r THEN 1 ELSE 0)

\* C28: for op in {-, /, <, <=, >, >=} and operand values l and r, the lines
\* emitted for the operation run to their end without a fault and leave
\* `l op r`, left operand first, in rax (a division by r = 0 has no value and
\* is left out).
C28_BinaryOperandOrder ==
    (cpu.state # "off" /\ expr # NullNode) =>
        LET l == ValueOf(expr.left.value)
            r == ValueOf(expr.right.value)
        IN (expr.op = "/" => r # 0) =>
              /\ cpu.state # "fault"
              /\ cpu.pc > Len(generatedCode) => cpu.rax = Apply(expr.op, l, r)

(***************************************************************************)
(* The lines visitFunctionCallNode emits for a call, run on the processor  *)
(* up to the entry of the callee and on after its return.                  *)
(***************************************************************************)
Add12 == ExpressionNode(Lit1, "+", LiteralNode("2"))
Div22 == ExpressionNode(LiteralNode("2"), "/", LiteralNode("2"))

\* calls of f with 7 and 8 arguments: every choice of a sum or a quotient for
\* each argument, and the call whose arguments are all the literal 1
LongCalls ==
    UNION {{FunctionCallNode("f", a) : a \in [1..n -> {Add12, Div22}]}
           \cup {FunctionCallNode("f", [i \in 1..n |-> Lit1])} : n \in {MaxArgs, MaxArgs + 1}}

InitCall ==
    /\ expr \in LongCalls
    /\ GeneratorConstructed

\* visitFunctionCallNode(expr): the lines are emitted, the processor starts at the first
VisitFunctionCall ==
    /\ cpu.state = "off"
    /\ expr.t = "FunctionCall"
    /\ generatedCode' = generatedCode \o FunctionCallLines(expr)
    /\ \E a \in Uninitialised :
           cpu' = [PoweredOff EXCEPT !.state = "running", !.pc = 1, !.rax = a,
                                     !.rbx = a, !.rdx = a]
    /\ EvalUnchanged

\* `add rax, rbx`
ExecuteAdd ==
    /\ Fetching /\ instruction = Plain("add rax, rbx")
    /\ Step([cpu EXCEPT !.rax = cpu.rax + cpu.rbx])
    /\ UNCHANGED generatedCode /\ EvalUnchanged

\* `mov <argument register>, rax`
ExecuteMovRegister ==
    /\ Fetching /\ instruction.op = "mov reg, rax"
    /\ Step(IF instruction.a = "rdx" THEN [cpu EXCEPT !.rdx = cpu.rax]
            ELSE [cpu EXCEPT !.args[instruction.a] = cpu.rax])
    /\ UNCHANGED generatedCode /\ EvalUnchanged

\* `call f` and the prologue of f (`push rbp; mov rbp, rsp`): the return
\* address and the saved rbp lie on top of the pushed arguments, rbp points
\* at the saved rbp
ExecuteCall ==
    /\ Fetching /\ instruction.op = "call"
    /\ cpu' = [cpu EXCEPT !.state = "callee", !.stack = cpu.stack \o <<0, 0>>]
    /\ UNCHANGED generatedCode /\ EvalUnchanged

\* the epilogue of f (`leave; ret`)
ExecuteReturn ==
    /\ cpu.state = "callee"
    /\ cpu' = [cpu EXCEPT !.state = "running", !.pc = cpu.pc + 1,
                          !.stack = SubSeq(cpu.stack, 1, Len(cpu.stack) - 2)]
    /\ UNCHANGED generatedCode /\ EvalUnchanged

\* `add rsp, n`: n / 8 slots are released
ExecuteAddRsp ==
    /\ Fetching /\ instruction.op = "add rsp,"
    /\ IF instruction.n \div 8 > Len(cpu.stack)
       THEN cpu' = [cpu EXCEPT !.state = "fault"]
       ELSE Step([cpu EXCEPT !.stack = SubSeq(cpu.stack, 1, Len(cpu.stack) - instruction.n \div 8)])
    /\ UNCHANGED generatedCode /\ EvalUnchanged

NextCall ==
    \/ VisitFunctionCall
    \/ ExecuteMov
    \/ ExecutePush
    \/ ExecutePop
    \/ ExecuteAdd
    \/ ExecuteXor
    \/ ExecuteIdiv
    \/ ExecuteMovRegister
    \/ ExecuteCall
    \/ ExecuteReturn
    \/ ExecuteAddRsp

SpecCall == InitCall /\ [][NextCall]_vars

\* the value of an argument in the source language
Value(node) ==
    IF node.t = "Literal" THEN ValueOf(node.value)
    ELSE IF node.op = "+" THEN ValueOf(node.left.value) + ValueOf(node.right.value)
    ELSE Apply(node.op, ValueOf(node.left.value), ValueOf(node.right.value))

Register(name) == IF name = "rdx" THEN cpu.rdx ELSE cpu.args[name]

\* the slot [rbp+offset] of the callee, offset >= 0
SlotIndex(offset) == Len(cpu.stack) - offset \div 8

\* C23: at the entry of a callee defined with the n > 6 parameters of the
\* call, argument i of 1..6 is in the i-th of rdi, rsi, rdx, rcx, r8, r9,
\* exactly n-6 values were pushed, and for j in 7..n the slot the callee
\* records for parameter j, [rbp+16+8*(j-7)], holds argument j; after the
\* return `add rsp, 8*(n-6)` leaves the stack as it was before the call.
C23_LongCall ==
    LET n == Len(expr.arguments)
        recorded == ParamMap(Params(n), 0, 16)
    IN /\ cpu.state # "fault"
       /\ cpu.state = "callee" =>
            /\ \A i \in 1..Len(argumentRegisters) :
                   Register(argumentRegisters[i]) = Value(expr.arguments[i])
            /\ Len(cpu.stack) = n - Len(argumentRegisters) + 2
            /\ \A j \in (Len(argumentRegisters) + 1)..n :
                   /\ recorded[ParamNames[j]].offset = 16 + 8 * (j - 7)
                   /\ SlotIndex(recorded[ParamNames[j]].offset) \in 1..Len(cpu.stack)
                   /\ cpu.stack[SlotIndex(recorded[ParamNames[j]].offset)]
                          = Value(expr.arguments[j])
       /\ (cpu.state = "running" /\ cpu.pc > Len(generatedCode)) => cpu.stack = <<>>

(***************************************************************************)
(* Parser::parseAsm, one action per iteration of its loop.                 *)
(***************************************************************************)
\* most tokens before the eof token
MaxAsmTokens == 5

\* largest depth followed
MaxDepth == 3

AsmAlphabet ==
    {Token("INLINE_ASM", "asm"), LeftBrace, RightBrace, Semicolon, Identifier("nop")}

RECURSIVE AsmSequences(_)
AsmSequences(n) ==
    IF n = 0 THEN {<<>>}
    ELSE LET shorter == AsmSequences(n - 1)
         IN shorter \cup {Append(s, tk) : s \in shorter, tk \in AsmAlphabet}

InitAsm ==
    /\ tokens \in {s \o <<EofToken>> : s \in AsmSequences(MaxAsmTokens)}
    /\ current = 0
    /\ existing_types = BuiltinTypes
    /\ existing_functions = <<>>
    /\ existing_variables = <<>>
    /\ statements = <<>>
    /\ pstatus = "running"
    /\ program = <<>>
    /\ typedefs = EmptyMap
    /\ structDefinitions = EmptyMap
    /\ generatedCode = <<>>
    /\ localVarStack = <<>>
    /\ localVarOffset = 0
    /\ totalLocalVarOffset = 0
    /\ labelCounter = 0
    /\ currentArgOffset = 0
    /\ currentFunctionName = ""
    /\ loopContextStack = <<>>
    /\ frames = <<>>
    /\ blockTrace = <<>>
    /\ status = "idle"
    /\ files = EmptyMap
    /\ cwd = <<>>
    /\ includePaths = <<>>
    /\ macros = EmptyMap
    /\ stream = <<>>
    /\ output = <<>>
    /\ ppstatus = "idle"
    /\ filename = <<>>
    /\ source = <<>>
    /\ start = 0
    /\ lstatus = "idle"
    /\ expr = NullNode
    /\ cpu = PoweredOff
    /\ asmCall = NotCalled

AsmUnchanged ==
    UNCHANGED <<tokens, existing_types, existing_functions, existing_variables,
                genVars, preVars, lexVars, cpuVars>>

\* parse, line 82, and parseAsm, lines 293-295: the two expect calls and depth = 0
ParseAsmEnter ==
    /\ AtItem /\ ~Dispatched(ParserState)
    /\ PeekOk(tokens, ParserState, 0)
    /\ ~IsType(ParserState, Peek(tokens, ParserState, 0).value)
    /\ Check(tokens, ParserState, "INLINE_ASM")
    /\ LET kw == Expect(tokens, ParserState, "INLINE_ASM", "Expect 'asm' keyword.")
           lb == Expect(tokens, kw, "LEFT_BRACE", "Expect '{' after 'asm' keyword.")
       IN /\ current' = lb.current
          /\ pstatus' = IF lb.err = "" THEN "running" ELSE lb.err
          /\ asmCall' = IF lb.err = "" THEN [at |-> "loop", depth |-> 0, asm_source |-> <<>>]
                        ELSE NotCalled
    /\ UNCHANGED statements
    /\ AsmUnchanged

\* the condition of the loop, line 296: `!depth == 0` is (!depth) == 0
InAsmLoop ==
    /\ pstatus = "running" /\ asmCall.at = "loop"
    /\ ~Check(tokens, ParserState, "RIGHT_BRACE") \/ asmCall.depth # 0

\* lines 297-305: at a brace the depth changes and the loop continues
ParseAsmBrace ==
    /\ InAsmLoop
    /\ asmCall.depth < MaxDepth
    /\ \/ /\ Check(tokens, ParserState, "LEFT_BRACE")
          /\ asmCall' = [asmCall EXCEPT !.depth = @ + 1, !.asm_source = Append(@, "{")]
       \/ /\ ~Check(tokens, ParserState, "LEFT_BRACE")
          /\ Check(tokens, ParserState, "RIGHT_BRACE")
          /\ asmCall' = [asmCall EXCEPT !.depth = @ - 1, !.asm_source = Append(@, "}")]
    /\ UNCHANGED <<current, pstatus, statements>>
    /\ AsmUnchanged

\* line 306: asm_source += consume().value
ParseAsmConsume ==
    /\ InAsmLoop
    /\ ~Check(tokens, ParserState, "LEFT_BRACE")
    /\ ~Check(tokens, ParserState, "RIGHT_BRACE")
    /\ LET cs == Consume(tokens, ParserState)
       IN /\ current' = cs.current
          /\ pstatus' = IF cs.err = "" THEN "running" ELSE cs.err
          /\ asmCall' = IF cs.err = ""
                        THEN [asmCall EXCEPT !.asm_source = Append(@, PreviousValue(tokens, cs))]
                        ELSE NotCalled
    /\ UNCHANGED statements
    /\ AsmUnchanged

\* lines 309-311 and the push_back of parse, line 82
ParseAsmReturn ==
    /\ pstatus = "running" /\ asmCall.at = "loop"
    /\ ~InAsmLoop
    /\ LET rb == Expect(tokens, ParserState, "RIGHT_BRACE", "Expect '}' after inline asm block.")
           sc == Expect(tokens, rb, "SEMICOLON", "Expect ';' after inline asm block.")
       IN /\ current' = sc.current
          /\ pstatus' = IF sc.err = "" THEN "running" ELSE sc.err
          /\ statements' = IF sc.err = "" THEN Append(statements, AsmNode(asmCall.asm_source))
                           ELSE statements
    /\ asmCall' = NotCalled
    /\ AsmUnchanged

NextAsm ==
    \/ ParseProgram
    \/ ParseAsmEnter
    \/ ParseAsmBrace
    \/ ParseAsmConsume
    \/ ParseAsmReturn
    \/ ExpectStatement

SpecAsm == InitAsm /\ [][NextAsm]_vars

ParseProgress ==
    pstatus = "running" =>
        /\ current' >= current
        /\ current' > current \/ pstatus' # "running"

\* C30: while parse runs, no step of the top-level loop or of the loop of
\* parseAsm moves the cursor backwards, and every one of them consumes a
\* token, raises an error or returns the tree; so parse ends on every token
\* vector that ends in eof.
C30_ParseProgress == [][ParseProgress]_vars

====
